---- MODULE Spec2Model ----
(***************************************************************************)
(* State-machine model of compatify's package parser                       *)
(* (src/parsers/packageParser.js), dependency graph                        *)
(* (src/graph/dependencyGraph.js) and compatibility checker                *)
(* (src/checker/compatibilityChecker.js).                                  *)
(*                                                                         *)
(* JavaScript values are represented as follows.                           *)
(*   - an object is a record; a property that is absent (undefined) and    *)
(*     list-valued is a field missing from the record (see Has);           *)
(*   - an undefined version is NoVersion, an undefined range is NoRange,   *)
(*     an undefined string is Undefined;                                   *)
(*   - a version "M.m.0" is the number 10*M + m (M >= 1, m <= 9);          *)
(*   - a range is a record [op, v]: op is a semver comparator or "^",      *)
(*     "*" matches everything, any other op is a range semver rejects;     *)
(*   - a Map or an object iterated in insertion order is a sequence of     *)
(*     entries with pairwise distinct keys.                                *)
(***************************************************************************)
EXTENDS Integers, Sequences, FiniteSets, TLC

\* ------------------------------------------------------------------ bounds
MaxCalls == 2
\* the edges added to a graph one by one
MaxEdges == 3

\* ------------------------------------------------------- JavaScript values
Undefined == "undefined"
NoVersion == 0
NoRange == [op |-> "undefined", v |-> 0]
Root == "__root__"

Has(o, f) == f \in DOMAIN o

Rng(op, v) == [op |-> op, v |-> v]

\* semver.major of a version M.m.0
Major(version) == version \div 10

\* semver.satisfies(version, range): false, never an exception, when the
\* version is missing or the range is not one semver accepts.
Satisfies(version, range) ==
  IF version = NoVersion THEN FALSE
  ELSE CASE range.op = "^"  -> Major(version) = Major(range.v) /\ version >= range.v
         [] range.op = ">=" -> version >= range.v
         [] range.op = ">"  -> version > range.v
         [] range.op = "<=" -> version <= range.v
         [] range.op = "<"  -> version < range.v
         [] range.op = "="  -> version = range.v
         [] range.op = ""   -> version = range.v
         [] range.op = "*"  -> TRUE
         [] OTHER           -> FALSE

\* ------------------------------------------------------- DependencyGraph
\* constructor: two empty Maps
EmptyGraph == [nodes |-> <<>>, edges |-> <<>>]

\* position of key k in a Map kept as a sequence of entries (0: absent)
RECURSIVE IndexOf(_, _, _)
IndexOf(entries, field, k) ==
  IF entries = <<>> THEN 0
  ELSE IF entries[Len(entries)][field] = k /\ IndexOf(SubSeq(entries, 1, Len(entries) - 1), field, k) = 0
       THEN Len(entries)
       ELSE IndexOf(SubSeq(entries, 1, Len(entries) - 1), field, k)

\* Map.set: overwrite in place when the key exists, append otherwise
MapSet(entries, field, e) ==
  LET i == IndexOf(entries, field, e[field])
  IN IF i = 0 THEN Append(entries, e) ELSE [entries EXCEPT ![i] = e]

addNode(g, name, metadata) ==
  [g EXCEPT !.nodes = MapSet(g.nodes, "name",
     [name |-> name,
      version |-> IF Has(metadata, "version") THEN metadata.version ELSE NoVersion,
      peerDependencies |-> IF Has(metadata, "peerDependencies") THEN metadata.peerDependencies ELSE <<>>,
      engines |-> IF Has(metadata, "engines") THEN metadata.engines ELSE [node |-> NoRange],
      type |-> IF Has(metadata, "type") /\ metadata.type # "" THEN metadata.type ELSE "commonjs",
      deprecated |-> Has(metadata, "deprecated") /\ metadata.deprecated,
      optional |-> Has(metadata, "optional") /\ metadata.optional,
      dev |-> Has(metadata, "dev") /\ metadata.dev])]

\* variant: an edge to a target the source already has is not added again
addEdge_Dedup(g, from, to, versionRange) ==
  LET i == IndexOf(g.edges, "from", from)
      e == [to |-> to, versionRange |-> versionRange]
  IN IF i = 0
     THEN [g EXCEPT !.edges = Append(g.edges, [from |-> from, list |-> <<e>>])]
     ELSE IF \E k \in DOMAIN g.edges[i].list : g.edges[i].list[k].to = to
          THEN g
          ELSE [g EXCEPT !.edges[i].list = Append(g.edges[i].list, e)]

addEdge(g, from, to, versionRange) ==
  LET i == IndexOf(g.edges, "from", from)
      e == [to |-> to, versionRange |-> versionRange]
  IN IF i = 0
     THEN [g EXCEPT !.edges = Append(g.edges, [from |-> from, list |-> <<e>>])]
     ELSE [g EXCEPT !.edges[i].list = Append(g.edges[i].list, e)]

getDependencies(g, packageName) ==
  LET i == IndexOf(g.edges, "from", packageName)
  IN IF i = 0 THEN <<>> ELSE g.edges[i].list

\* getNode returns the node or null; HasNode is the test `!node`
HasNode(g, packageName) == IndexOf(g.nodes, "name", packageName) # 0
getNode(g, packageName) == g.nodes[IndexOf(g.nodes, "name", packageName)]

RECURSIVE FilterNames(_)
FilterNames(nodes) ==
  IF nodes = <<>> THEN <<>>
  ELSE LET rest == FilterNames(Tail(nodes))
       IN IF Head(nodes).name # Root THEN <<Head(nodes).name>> \o rest ELSE rest

getAllPackages(g) == FilterNames(g.nodes)

\* the loops of buildFromProject
RECURSIVE AddInstalledNodes(_, _)
AddInstalledNodes(g, installed) ==
  IF installed = <<>> THEN g
  ELSE AddInstalledNodes(addNode(g, Head(installed).name, Head(installed).metadata), Tail(installed))

RECURSIVE AddEdgesFrom(_, _, _)
AddEdgesFrom(g, from, deps) ==
  IF deps = <<>> THEN g
  ELSE AddEdgesFrom(addEdge(g, from, Head(deps).name, Head(deps).range), from, Tail(deps))

RECURSIVE AddInstalledEdges(_, _)
AddInstalledEdges(g, installed) ==
  IF installed = <<>> THEN g
  ELSE LET m == Head(installed).metadata
           g1 == IF Has(m, "dependencies") THEN AddEdgesFrom(g, Head(installed).name, m.dependencies) ELSE g
       IN AddInstalledEdges(g1, Tail(installed))

\* the properties of o named in fields, those that o has
Pick(o, fields) == [f \in (DOMAIN o) \cap fields |-> o[f]]

\* variant: a declared dependency gets a node even when it is not installed
RECURSIVE AddDeclaredNodes(_, _)
AddDeclaredNodes(g, deps) ==
  IF deps = <<>> THEN g
  ELSE AddDeclaredNodes(IF HasNode(g, Head(deps).name) THEN g
                        ELSE addNode(g, Head(deps).name, [version |-> Head(deps).range.v]),
                        Tail(deps))

buildFromProject_DeclaredNodes(projectData) ==
  LET g0 == addNode(EmptyGraph, Root, Pick(projectData.metadata, {"version", "engines", "type"}))
      g1 == AddInstalledNodes(g0, projectData.installed)
      g2 == AddEdgesFrom(AddDeclaredNodes(g1, projectData.dependencies.all), Root, projectData.dependencies.all)
  IN AddInstalledEdges(g2, projectData.installed)

buildFromProject(projectData) ==
  LET g0 == addNode(EmptyGraph, Root, Pick(projectData.metadata, {"version", "engines", "type"}))
      g1 == AddInstalledNodes(g0, projectData.installed)
      g2 == AddEdgesFrom(g1, Root, projectData.dependencies.all)
  IN AddInstalledEdges(g2, projectData.installed)

\* ---- findPaths.  The closure dfs reads to and maxDepth and updates paths
\* and visited: st is the record [paths, visited] of the two.
DefaultMaxDepth == 10

\* variant: the search is not cut off at maxDepth
TooDeep_Never(depth, maxDepth) == FALSE

\* variant: a path of exactly maxDepth edges is cut off
TooDeep_Inclusive(depth, maxDepth) == depth >= maxDepth

\* `if (depth > maxDepth) return`
TooDeep(depth, maxDepth) == depth > maxDepth

\* `visited.has(current)`
Seen(visited, current) == current \in visited

RECURSIVE dfs(_, _, _, _, _, _, _)
RECURSIVE DfsLoop(_, _, _, _, _, _, _)
dfs(g, to, maxDepth, current, path, depth, st) ==
  IF TooDeep(depth, maxDepth) THEN st
  ELSE IF current = to THEN [st EXCEPT !.paths = Append(@, Append(path, current))]
  ELSE IF Seen(st.visited, current) THEN st
  ELSE LET entered == [st EXCEPT !.visited = @ \cup {current}]
           done == DfsLoop(g, to, maxDepth, getDependencies(g, current), Append(path, current), depth + 1, entered)
       IN [done EXCEPT !.visited = @ \ {current}]

\* `for (const dep of deps) dfs(dep.to, [...path, current], depth + 1)`
DfsLoop(g, to, maxDepth, deps, path, depth, st) ==
  IF deps = <<>> THEN st
  ELSE DfsLoop(g, to, maxDepth, Tail(deps), path, depth,
               dfs(g, to, maxDepth, Head(deps).to, path, depth, st))

findPaths(g, from, to, maxDepth) ==
  dfs(g, to, maxDepth, from, <<>>, 0, [paths |-> <<>>, visited |-> {}]).paths

\* ---- getStats
RECURSIVE CountFlag(_, _, _)
\* the packages whose node has the flag set
CountFlag(g, packages, flag) ==
  IF packages = <<>> THEN 0
  ELSE (IF HasNode(g, Head(packages)) /\ getNode(g, Head(packages))[flag] THEN 1 ELSE 0)
       + CountFlag(g, Tail(packages), flag)

\* variant: the root node is counted as a package
getStats_WithRoot(g) ==
  LET packages == getAllPackages(g)
      totalDeps == Len(g.nodes)
      directDeps == Len(getDependencies(g, Root))
  IN [totalPackages |-> totalDeps,
      directDependencies |-> directDeps,
      transitiveDependencies |-> totalDeps - directDeps,
      devDependencies |-> CountFlag(g, packages, "dev"),
      optionalDependencies |-> CountFlag(g, packages, "optional")]

getStats(g) ==
  LET packages == getAllPackages(g)
      totalDeps == Len(packages)
      directDeps == Len(getDependencies(g, Root))
  IN [totalPackages |-> totalDeps,
      directDependencies |-> directDeps,
      transitiveDependencies |-> totalDeps - directDeps,
      devDependencies |-> CountFlag(g, packages, "dev"),
      optionalDependencies |-> CountFlag(g, packages, "optional")]

\* ---------------------------------------------------------- PackageParser
\* package.json is a record; a dependency section is a sequence of entries
\* [name, range] in key order.  package-lock.json is NoLock when the file
\* does not exist (parsePackageLock returns null), else a record whose
\* packages are entries [pkgPath, metadata]; a pkgPath is a sequence of
\* tokens, <<>> for the root key "" and <<"node_modules/", name>> for a
\* top-level package.
NoLock == [exists |-> FALSE]

\* `packageJson.x || {}`
Section(o, f) == IF Has(o, f) THEN o[f] ELSE <<>>

\* object spread {...a, ...b}: a key keeps the position of its first
\* occurrence and takes the value of its last
RECURSIVE Spread(_, _)
Spread(a, b) ==
  IF b = <<>> THEN a ELSE Spread(MapSet(a, "name", Head(b)), Tail(b))

\* variant: the peer dependencies are merged into `all` as well
extractDependencies_WithPeers(packageJson) ==
  LET dependencies == Section(packageJson, "dependencies")
      devDependencies == Section(packageJson, "devDependencies")
      peerDependencies == Section(packageJson, "peerDependencies")
      optionalDependencies == Section(packageJson, "optionalDependencies")
  IN [dependencies |-> dependencies,
      devDependencies |-> devDependencies,
      peerDependencies |-> peerDependencies,
      optionalDependencies |-> optionalDependencies,
      all |-> Spread(Spread(Spread(dependencies, devDependencies), peerDependencies), optionalDependencies)]

extractDependencies(packageJson) ==
  LET dependencies == Section(packageJson, "dependencies")
      devDependencies == Section(packageJson, "devDependencies")
      peerDependencies == Section(packageJson, "peerDependencies")
      optionalDependencies == Section(packageJson, "optionalDependencies")
  IN [dependencies |-> dependencies,
      devDependencies |-> devDependencies,
      peerDependencies |-> peerDependencies,
      optionalDependencies |-> optionalDependencies,
      all |-> Spread(Spread(dependencies, devDependencies), optionalDependencies)]

\* `pkgPath.replace(/^node_modules\//, '')`
StripPrefix(pkgPath) ==
  IF pkgPath # <<>> /\ Head(pkgPath) = "node_modules/" THEN Tail(pkgPath) ELSE pkgPath

RECURSIVE LockEntries(_, _)
\* the loop over Object.entries(packageLock.packages)
LockEntries(entries, packages) ==
  IF entries = <<>> THEN packages
  ELSE LET pkgPath == Head(entries).pkgPath
           metadata == Head(entries).metadata
       IN LockEntries(Tail(entries),
            IF pkgPath = <<>> THEN packages
            ELSE MapSet(packages, "name",
                   [name |-> StripPrefix(pkgPath)[1],
                    metadata |-> [version |-> IF Has(metadata, "version") THEN metadata.version ELSE NoVersion,
                                  dependencies |-> Section(metadata, "dependencies"),
                                  peerDependencies |-> Section(metadata, "peerDependencies"),
                                  engines |-> IF Has(metadata, "engines") THEN metadata.engines
                                              ELSE [node |-> NoRange],
                                  optional |-> Has(metadata, "optional") /\ metadata.optional,
                                  dev |-> Has(metadata, "dev") /\ metadata.dev]]))

\* the lockfileVersion 2 and 3 branch; the lockfileVersion 1 branch, taken
\* for a lock with `dependencies` and no `packages`, is not among the inputs
extractInstalledPackages(packageLock) ==
  IF ~packageLock.exists THEN <<>>
  ELSE IF Has(packageLock, "packages") THEN LockEntries(packageLock.packages, <<>>)
  ELSE <<>>

\* version 0.0.0, the default of extractProjectMetadata
ZeroVersion == 0

extractProjectMetadata(packageJson) ==
  [name |-> IF Has(packageJson, "name") /\ packageJson.name # "" THEN packageJson.name ELSE "unknown",
   version |-> IF Has(packageJson, "version") THEN packageJson.version ELSE ZeroVersion,
   engines |-> IF Has(packageJson, "engines") THEN packageJson.engines ELSE [node |-> NoRange],
   type |-> IF Has(packageJson, "type") /\ packageJson.type # "" THEN packageJson.type ELSE "commonjs"]

parseProject(packageJson, packageLock) ==
  [metadata |-> extractProjectMetadata(packageJson),
   dependencies |-> extractDependencies(packageJson),
   installed |-> extractInstalledPackages(packageLock),
   hasLockFile |-> packageLock.exists]

\* --------------------------------------------------- CompatibilityChecker
\* checkPeerDependencies: the inner loop over Object.entries(node.peerDependencies)
RECURSIVE PeerEntries(_, _, _, _)
\* variant: the range test without its negation
PeerEntries_Inverted(g, node, peers, issues) ==
  IF peers = <<>> THEN issues
  ELSE LET peerName == Head(peers).name
           peerRange == Head(peers).range
           next == IF ~HasNode(g, peerName)
                   THEN Append(issues,
                          [type |-> "missing-peer-dependency", severity |-> "error",
                           package |-> node.name, peerPackage |-> peerName,
                           requiredVersion |-> peerRange,
                           fix |-> [install |-> peerName, at |-> peerRange]])
                   ELSE IF Satisfies(getNode(g, peerName).version, peerRange)
                   THEN Append(issues,
                          [type |-> "peer-dependency-mismatch", severity |-> "error",
                           package |-> node.name, peerPackage |-> peerName,
                           requiredVersion |-> peerRange,
                           installedVersion |-> getNode(g, peerName).version,
                           fix |-> [install |-> peerName, at |-> peerRange]])
                   ELSE issues
       IN PeerEntries(g, node, Tail(peers), next)

PeerEntries(g, node, peers, issues) ==
  IF peers = <<>> THEN issues
  ELSE LET peerName == Head(peers).name
           peerRange == Head(peers).range
           next == IF ~HasNode(g, peerName)
                   THEN Append(issues,
                          [type |-> "missing-peer-dependency",
                           severity |-> "error",
                           package |-> node.name,
                           peerPackage |-> peerName,
                           requiredVersion |-> peerRange,
                           fix |-> [install |-> peerName, at |-> peerRange]])
                   ELSE IF ~Satisfies(getNode(g, peerName).version, peerRange)
                   THEN Append(issues,
                          [type |-> "peer-dependency-mismatch",
                           severity |-> "error",
                           package |-> node.name,
                           peerPackage |-> peerName,
                           requiredVersion |-> peerRange,
                           installedVersion |-> getNode(g, peerName).version,
                           fix |-> [install |-> peerName, at |-> peerRange]])
                   ELSE issues
       IN PeerEntries(g, node, Tail(peers), next)

RECURSIVE PeerLoop(_, _, _)
PeerLoop(g, packages, issues) ==
  IF packages = <<>> THEN issues
  ELSE PeerLoop(g, Tail(packages),
                PeerEntries(g, getNode(g, Head(packages)), getNode(g, Head(packages)).peerDependencies, issues))

checkPeerDependencies(g, issues) == PeerLoop(g, getAllPackages(g), issues)

\* ---- _evaluateCondition
\* A condition of the rules data is [kind, text]: kind is the JSON type of
\* the value; for a string, text is its sequence of tokens, each token one
\* of: the word "node", another word, one of the characters < > = !, or a
\* version literal "vNN" (version NN) .
OpChars == {"<", ">", "=", "!"}

RECURSIVE OpRun(_)
\* length of the longest prefix of op characters
OpRun(toks) == IF toks # <<>> /\ Head(toks) \in OpChars THEN 1 + OpRun(Tail(toks)) ELSE 0

\* /^node([<>=!]+)(.+)$/ : the operator group is greedy but leaves at
\* least one token to the version group.  0 when the text does not match.
OperatorLen(text) ==
  IF Len(text) < 3 \/ text[1] # "node" THEN 0
  ELSE LET run == OpRun(Tail(text))
       IN IF run = 0 THEN 0
          ELSE IF run = Len(text) - 1 THEN run - 1
          ELSE run

\* `${operator}${version}` as a semver range; an operator or a version that
\* semver does not accept gives a range that nothing satisfies
LiteralVersion(tok) ==
  CASE tok = "v10" -> 10
    [] tok = "v20" -> 20
    [] tok = "v30" -> 30
    [] OTHER -> NoVersion

ConditionRange(operator, version) ==
  LET op == CASE operator = <<"<">> -> "<"
              [] operator = <<">">> -> ">"
              [] operator = <<"=">> -> "="
              [] operator = <<"<", "=">> -> "<="
              [] operator = <<">", "=">> -> ">="
              [] OTHER -> "invalid"
  IN IF Len(version) = 1 /\ LiteralVersion(version[1]) # NoVersion
     THEN Rng(op, LiteralVersion(version[1]))
     ELSE Rng("invalid", 0)

\* "true", "false", or "throw" (TypeError: condition.match is not a function)
evaluateCondition(condition, currentVersion) ==
  IF condition.kind # "string" THEN "throw"
  ELSE LET n == OperatorLen(condition.text)
       IN IF n = 0 THEN "false"
          ELSE IF Satisfies(currentVersion,
                            ConditionRange(SubSeq(condition.text, 2, n + 1),
                                           SubSeq(condition.text, n + 2, Len(condition.text))))
               THEN "true" ELSE "false"

\* JavaScript truthiness of warning.condition
Truthy(condition) ==
  CASE condition.kind = "string" -> condition.text # <<>>
    [] condition.kind = "number" -> condition.num # 0
    [] OTHER -> FALSE

\* `x.severity || dflt`
SeverityOr(o, dflt) == IF Has(o, "severity") /\ o.severity # "" THEN o.severity ELSE dflt

StrOr(o, f) == IF Has(o, f) THEN o[f] ELSE Undefined

\* ---- checkVersionIncompatibilities.  A pass result is [issues, threw]:
\* threw is TRUE when the pass raised, issues is the accumulator as left.
RECURSIVE IncompatLoop(_, _, _, _)
IncompatLoop(g, rule, incompats, issues) ==
  IF incompats = <<>> THEN issues
  ELSE LET incompatibility == Head(incompats)
           next == IF HasNode(g, incompatibility.package)
                      /\ Satisfies(getNode(g, incompatibility.package).version, incompatibility.versionRange)
                   THEN Append(issues,
                          [type |-> "version-incompatibility",
                           severity |-> SeverityOr(incompatibility, "error"),
                           package |-> rule.package,
                           version |-> getNode(g, rule.package).version,
                           incompatiblePackage |-> incompatibility.package,
                           incompatibleVersion |-> getNode(g, incompatibility.package).version,
                           message |-> StrOr(incompatibility, "reason"),
                           fix |-> [copied |-> StrOr(incompatibility, "fix")]])
                   ELSE issues
       IN IncompatLoop(g, rule, Tail(incompats), next)

RECURSIVE WarningLoop(_, _, _, _, _)
WarningLoop(g, rule, warnings, currentVersion, issues) ==
  IF warnings = <<>> THEN [issues |-> issues, threw |-> FALSE]
  ELSE LET warning == Head(warnings)
           met == IF Has(warning, "condition") /\ Truthy(warning.condition)
                  THEN evaluateCondition(warning.condition, currentVersion)
                  ELSE "false"
       IN IF met = "throw" THEN [issues |-> issues, threw |-> TRUE]
          ELSE WarningLoop(g, rule, Tail(warnings), currentVersion,
                 IF met = "true"
                 THEN Append(issues,
                        [type |-> "compatibility-warning",
                         severity |-> SeverityOr(warning, "warning"),
                         package |-> rule.package,
                         version |-> getNode(g, rule.package).version,
                         message |-> StrOr(warning, "message")])
                 ELSE issues)

RECURSIVE RuleLoop(_, _, _, _)
RuleLoop(g, ruleList, currentVersion, issues) ==
  IF ruleList = <<>> THEN [issues |-> issues, threw |-> FALSE]
  ELSE LET rule == Head(ruleList)
       IN IF ~HasNode(g, rule.package)
             \/ ~Satisfies(getNode(g, rule.package).version, IF Has(rule, "version") THEN rule.version ELSE NoRange)
          THEN RuleLoop(g, Tail(ruleList), currentVersion, issues)
          ELSE LET i1 == IF Has(rule, "incompatibleWith")
                         THEN IncompatLoop(g, rule, rule.incompatibleWith, issues)
                         ELSE issues
                   r2 == IF Has(rule, "warnings")
                         THEN WarningLoop(g, rule, rule.warnings, currentVersion, i1)
                         ELSE [issues |-> i1, threw |-> FALSE]
               IN IF r2.threw THEN r2
                  ELSE RuleLoop(g, Tail(ruleList), currentVersion, r2.issues)

checkVersionIncompatibilities(rules, g, currentVersion, issues) ==
  IF ~Has(rules, "rules") THEN [issues |-> issues, threw |-> FALSE]
  ELSE RuleLoop(g, rules.rules, currentVersion, issues)

\* ---- checkDeprecatedPackages
RECURSIVE DeprecatedLoop(_, _, _)
DeprecatedLoop(g, deprecations, issues) ==
  IF deprecations = <<>> THEN issues
  ELSE LET deprecation == Head(deprecations)
       IN DeprecatedLoop(g, Tail(deprecations),
            IF ~HasNode(g, deprecation.package) THEN issues
            ELSE Append(issues,
                   [type |-> "deprecated-package",
                    severity |-> SeverityOr(deprecation, "warning"),
                    package |-> deprecation.package,
                    version |-> getNode(g, deprecation.package).version,
                    message |-> StrOr(deprecation, "reason"),
                    replacement |-> StrOr(deprecation, "replacement"),
                    fix |-> [copied |-> StrOr(deprecation, "fix")]]))

checkDeprecatedPackages(rules, g, issues) ==
  IF ~Has(rules, "deprecated") THEN issues
  ELSE DeprecatedLoop(g, rules.deprecated, issues)

\* ---- checkESMCompatibility
RECURSIVE EsmLoop(_, _, _)
EsmLoop(g, esmRules, issues) ==
  IF esmRules = <<>> THEN issues
  ELSE LET esmRule == Head(esmRules)
           compatibleVersion == IF Has(esmRule, "compatibleVersion") THEN esmRule.compatibleVersion ELSE NoRange
       IN EsmLoop(g, Tail(esmRules),
            IF HasNode(g, esmRule.package)
               /\ Satisfies(getNode(g, esmRule.package).version,
                            IF Has(esmRule, "version") THEN esmRule.version ELSE NoRange)
            THEN Append(issues,
                   [type |-> "esm-commonjs-conflict",
                    severity |-> SeverityOr(esmRule, "error"),
                    package |-> esmRule.package,
                    version |-> getNode(g, esmRule.package).version,
                    message |-> StrOr(esmRule, "message"),
                    compatibleVersion |-> compatibleVersion,
                    fix |-> [install |-> esmRule.package, at |-> compatibleVersion]])
            ELSE issues)

\* variant: the ESM rules are applied whatever the project's module type
checkESMCompatibility_AnyType(rules, g, projectMetadata, issues) ==
  IF ~Has(rules, "esm") THEN issues
  ELSE EsmLoop(g, rules.esm, issues)

checkESMCompatibility(rules, g, projectMetadata, issues) ==
  IF ~Has(rules, "esm") THEN issues
  ELSE LET projectType == IF Has(projectMetadata, "type") /\ projectMetadata.type # ""
                          THEN projectMetadata.type ELSE "commonjs"
       IN IF projectType # "commonjs" THEN issues
          ELSE EsmLoop(g, rules.esm, issues)

\* ---- checkEngineRequirements
RECURSIVE EngineLoop(_, _, _, _)
RECURSIVE EngineLoop_Satisfied(_, _, _, _)
\* variant: the range test without its negation
EngineLoop_Satisfied(g, packages, currentNodeVersion, issues) ==
  IF packages = <<>> THEN issues
  ELSE LET node == getNode(g, Head(packages))
       IN EngineLoop_Satisfied(g, Tail(packages), currentNodeVersion,
            IF node.engines.node # NoRange /\ Satisfies(currentNodeVersion, node.engines.node)
            THEN Append(issues,
                   [type |-> "engine-mismatch",
                    severity |-> "warning",
                    package |-> node.name,
                    version |-> node.version,
                    requiredNodeVersion |-> node.engines.node,
                    currentNodeVersion |-> currentNodeVersion])
            ELSE issues)

EngineLoop(g, packages, currentNodeVersion, issues) ==
  IF packages = <<>> THEN issues
  ELSE LET node == getNode(g, Head(packages))
       IN EngineLoop(g, Tail(packages), currentNodeVersion,
            IF node.engines.node # NoRange /\ ~Satisfies(currentNodeVersion, node.engines.node)
            THEN Append(issues,
                   [type |-> "engine-mismatch",
                    severity |-> "warning",
                    package |-> node.name,
                    version |-> node.version,
                    requiredNodeVersion |-> node.engines.node,
                    currentNodeVersion |-> currentNodeVersion])
            ELSE issues)

checkEngineRequirements(rules, g, projectMetadata, currentNodeVersion, issues) ==
  LET i1 == IF Has(projectMetadata, "engines") /\ projectMetadata.engines.node # NoRange
               /\ ~Satisfies(currentNodeVersion, projectMetadata.engines.node)
            THEN Append(issues,
                   [type |-> "engine-mismatch",
                    severity |-> "error",
                    package |-> StrOr(projectMetadata, "name"),
                    requiredNodeVersion |-> projectMetadata.engines.node,
                    currentNodeVersion |-> currentNodeVersion])
            ELSE issues
      i2 == EngineLoop(g, getAllPackages(g), currentNodeVersion, i1)
      majorVersion == Major(currentNodeVersion)
  IN IF Has(rules, "engineRequirements") /\ Has(rules.engineRequirements, "node")
     THEN LET table == rules.engineRequirements.node
              k == IndexOf(table, "major", majorVersion)
          IN IF k # 0 /\ StrOr(table[k], "status") = "end-of-life"
             THEN Append(i2,
                    [type |-> "node-version-eol",
                     severity |-> SeverityOr(table[k], "warning"),
                     currentNodeVersion |-> currentNodeVersion,
                     eolDate |-> StrOr(table[k], "eolDate"),
                     message |-> StrOr(table[k], "message")])
             ELSE i2
     ELSE i2

\* ---- check, from the reset of the accumulator to the return: the five
\* passes in order.  before is the accumulator as the call found it.
\* Result [issues, threw]; when threw, check() rejects and this.issues is
\* left as the failing pass left it.
\* variant: the accumulator is not reset
RunChecks_NoReset(rules, before, g, projectMetadata, currentNodeVersion) ==
  LET p1 == checkPeerDependencies(g, before)
      r2 == checkVersionIncompatibilities(rules, g, currentNodeVersion, p1)
  IN IF r2.threw THEN r2
     ELSE LET p3 == checkDeprecatedPackages(rules, g, r2.issues)
              p4 == checkESMCompatibility(rules, g, projectMetadata, p3)
              p5 == checkEngineRequirements(rules, g, projectMetadata, currentNodeVersion, p4)
          IN [issues |-> p5, threw |-> FALSE]

\* variant: the deprecation pass runs ahead of the version pass
RunChecks_Reordered(rules, before, g, projectMetadata, currentNodeVersion) ==
  LET reset == <<>>
      p1 == checkPeerDependencies(g, reset)
      p3 == checkDeprecatedPackages(rules, g, p1)
      r2 == checkVersionIncompatibilities(rules, g, currentNodeVersion, p3)
  IN IF r2.threw THEN r2
     ELSE LET p4 == checkESMCompatibility(rules, g, projectMetadata, r2.issues)
              p5 == checkEngineRequirements(rules, g, projectMetadata, currentNodeVersion, p4)
          IN [issues |-> p5, threw |-> FALSE]

RunChecks(rules, before, g, projectMetadata, currentNodeVersion) ==
  LET reset == <<>>
      p1 == checkPeerDependencies(g, reset)
      r2 == checkVersionIncompatibilities(rules, g, currentNodeVersion, p1)
  IN IF r2.threw THEN r2
     ELSE LET p3 == checkDeprecatedPackages(rules, g, r2.issues)
              p4 == checkESMCompatibility(rules, g, projectMetadata, p3)
              p5 == checkEngineRequirements(rules, g, projectMetadata, currentNodeVersion, p4)
          IN [issues |-> p5, threw |-> FALSE]

\* ---- getIssuesBySeverity / getSummary
RECURSIVE Bucket(_, _)
\* the issues pushed into grouped[name]
Bucket(issues, name) ==
  IF issues = <<>> THEN <<>>
  ELSE LET issue == Head(issues)
           severity == SeverityOr(issue, "warning")
           rest == Bucket(Tail(issues), name)
       IN IF severity = name THEN <<issue>> \o rest ELSE rest

getIssuesBySeverity(issues) ==
  [error |-> Bucket(issues, "error"),
   warning |-> Bucket(issues, "warning"),
   info |-> Bucket(issues, "info")]

RECURSIVE CountType(_, _)
CountType(issues, types) ==
  IF issues = <<>> THEN 0
  ELSE (IF Head(issues).type \in types THEN 1 ELSE 0) + CountType(Tail(issues), types)

getSummary(issues) ==
  LET bySeverity == getIssuesBySeverity(issues)
  IN [total |-> Len(issues),
      errors |-> Len(bySeverity.error),
      warnings |-> Len(bySeverity.warning),
      info |-> Len(bySeverity.info),
      types |-> [peerDependency |-> CountType(issues, {"missing-peer-dependency", "peer-dependency-mismatch"}),
                 versionIncompatibility |-> CountType(issues, {"version-incompatibility"}),
                 deprecated |-> CountType(issues, {"deprecated-package"}),
                 esm |-> CountType(issues, {"esm-commonjs-conflict"}),
                 engine |-> CountType(issues, {"engine-mismatch", "node-version-eol"})]]

\* ------------------------------------------------------------ the inputs
\* Project data as PackageParser.parseProject returns it.
Installed(name, version, peers, engineRange) ==
  [name |-> name,
   metadata |-> [version |-> version, dependencies |-> <<>>, peerDependencies |-> peers,
                 engines |-> [node |-> engineRange], optional |-> FALSE, dev |-> FALSE]]

Peer(name, range) == [name |-> name, range |-> range]

Project(type, engineRange, all, installed) ==
  [metadata |-> [name |-> "proj", version |-> 10, engines |-> [node |-> engineRange], type |-> type],
   dependencies |-> [all |-> all],
   installed |-> installed]

ProjectDatas ==
  << \* a needs peer b, b is not installed
    Project("commonjs", NoRange, <<Peer("a", Rng("^", 10))>>,
            <<Installed("a", 10, <<Peer("b", Rng("^", 20))>>, NoRange)>>),
    \* a needs peer b ^2.0.0, b 1.0.0 is installed
    Project("commonjs", Rng(">=", 20), <<Peer("a", Rng("^", 10)), Peer("b", Rng("^", 10))>>,
            <<Installed("b", 10, <<>>, NoRange),
              Installed("a", 10, <<Peer("b", Rng("^", 20))>>, Rng(">=", 20))>>),
    \* an ESM project: peer b satisfied, peer c not installed
    Project("module", NoRange, <<Peer("a", Rng("^", 20))>>,
            <<Installed("b", 21, <<>>, NoRange),
              Installed("a", 20, <<Peer("b", Rng("^", 20)), Peer("c", Rng("^", 10))>>, NoRange)>>),
    \* no lockfile: nothing installed
    Project("commonjs", NoRange, <<Peer("a", Rng("^", 10))>>, <<>>) >>

\* process.version of the running engine
NodeVersions == {10, 20}

Str(tokens) == [kind |-> "string", text |-> tokens]

\* Rules data as JSON.parse returns it.
RulesTypical ==
  [rules |-> <<[package |-> "a", version |-> Rng("^", 10),
                incompatibleWith |-> <<[package |-> "b", versionRange |-> Rng("<", 20),
                                        severity |-> "error", reason |-> "a1 breaks b1", fix |-> "upgrade b"]>>,
                warnings |-> <<[condition |-> Str(<<"node", "<", "v20">>), message |-> "old node"],
                               [condition |-> Str(<<"node", "!", "=", "v20">>), severity |-> "info", message |-> "m2"]>>]>>,
   deprecated |-> <<[package |-> "b", reason |-> "b is deprecated", replacement |-> "b2", fix |-> "use b2"]>>,
   esm |-> <<[package |-> "a", version |-> Rng(">=", 20), message |-> "a2 is ESM", compatibleVersion |-> Rng("^", 10)]>>,
   engineRequirements |-> [node |-> <<[major |-> 1, status |-> "end-of-life", eolDate |-> "2020", message |-> "eol"],
                                      [major |-> 2, status |-> "active"]>>]]

\* a rule whose severity is none of error, warning, info
RulesSeverity ==
  [rules |-> <<[package |-> "a", version |-> Rng("*", 0),
                incompatibleWith |-> <<[package |-> "b", versionRange |-> Rng("<", 20),
                                        severity |-> "info", reason |-> "r"]>>]>>,
   deprecated |-> <<[package |-> "a", severity |-> "critical", reason |-> "a is deprecated", replacement |-> "a2"]>>]

\* a warning rule whose condition is a JSON number
RulesCondition ==
  [rules |-> <<[package |-> "b", version |-> Rng("*", 0),
                incompatibleWith |-> <<[package |-> "a", versionRange |-> Rng("*", 0), reason |-> "r"]>>,
                warnings |-> <<[condition |-> [kind |-> "number", num |-> 16], message |-> "m"]>>]>>,
   deprecated |-> <<[package |-> "a", reason |-> "a is deprecated"]>>]

\* an object with none of the rule sections
RulesNone == [schema |-> "1"]

\* what reading and parsing the file at rulesPath gives
RulesFiles ==
  {[kind |-> "missing"], [kind |-> "malformed"]}
  \cup {[kind |-> "json", data |-> d] : d \in {RulesTypical, RulesSeverity, RulesCondition, RulesNone}}

\* loadRules: the rules it stores, or the failure it raises when the file
\* cannot be read or is not JSON
\* variant: a load failure is swallowed and the checker goes on without rules
loadRules_Swallow(file) ==
  IF file.kind = "json" THEN [ok |-> TRUE, rules |-> file.data] ELSE [ok |-> TRUE, rules |-> RulesNone]

loadRules(file) ==
  IF file.kind = "json" THEN [ok |-> TRUE, rules |-> file.data] ELSE [ok |-> FALSE]

\* ---- inputs of the pass-level specification: one project, every module
\* type, with and without an engines range, over several lock contents
\* project metadata as check() receives it; type may be absent
PassMetadata(type, engineRange) ==
  IF type = Undefined
  THEN [name |-> "proj", version |-> 10, engines |-> [node |-> engineRange]]
  ELSE [name |-> "proj", version |-> 10, engines |-> [node |-> engineRange], type |-> type]

PassTypes == {"commonjs", "module", "cjs", Undefined}

PassInstalled ==
  {<<Installed("a", 10, <<Peer("b", Rng("^", 20))>>, NoRange)>>,
   <<Installed("b", 10, <<>>, NoRange),
     Installed("a", 10, <<Peer("b", Rng("^", 20))>>, Rng(">=", 20))>>,
   <<Installed("b", 21, <<>>, Rng("<", 20)),
     Installed("a", 20, <<Peer("b", Rng("^", 20)), Peer("c", Rng("^", 10))>>, NoRange)>>,
   \* a lock entry without a version, and an engines range semver rejects
   <<Installed("b", NoVersion, <<>>, Rng("latest", 0))>>,
   <<>>}

PassProjects ==
  {[metadata |-> PassMetadata(t, e),
    dependencies |-> [all |-> <<Peer("a", Rng("^", 10))>>],
    installed |-> ins] : t \in PassTypes, e \in {NoRange, Rng(">=", 20)}, ins \in PassInstalled}

\* process.version: majors 1 and 2 have a lifecycle entry, major 3 has none
PassNodeVersions == {10, 20, 30}

\* rules with explicit severities, several counterparts and ESM entries
RulesEsm ==
  [rules |-> <<[package |-> "a", version |-> Rng(">=", 10),
                incompatibleWith |-> <<[package |-> "b", versionRange |-> Rng("<", 20), reason |-> "r1"],
                                       [package |-> "c", versionRange |-> Rng("*", 0), reason |-> "r2"]>>],
               [package |-> "b", version |-> Rng("^", 20),
                incompatibleWith |-> <<[package |-> "a", versionRange |-> Rng(">=", 20),
                                        severity |-> "warning", reason |-> "r3"]>>],
               [package |-> "c", incompatibleWith |-> <<[package |-> "a", versionRange |-> Rng("*", 0)]>>]>>,
   deprecated |-> <<[package |-> "b", severity |-> "error", reason |-> "b is deprecated", replacement |-> "b2"],
                    [package |-> "c", reason |-> "c is deprecated"],
                    [package |-> "a", severity |-> "info", reason |-> "a is deprecated", replacement |-> "a2"]>>,
   esm |-> <<[package |-> "a", version |-> Rng(">=", 20), severity |-> "warning", message |-> "a2 is ESM",
              compatibleVersion |-> Rng("^", 10)],
             [package |-> "b", version |-> Rng(">=", 10), message |-> "b is ESM"],
             [package |-> "c", version |-> Rng("*", 0), message |-> "c is ESM"]>>,
   engineRequirements |-> [node |-> <<[major |-> 1, status |-> "end-of-life", severity |-> "error",
                                       eolDate |-> "2020", message |-> "eol 1"],
                                      [major |-> 2, status |-> "end-of-life", message |-> "eol 2"]>>]]

\* a rule whose warning condition is a JSON number, listed ahead of a rule
\* with a counterpart
RulesAbort ==
  [rules |-> <<[package |-> "a", version |-> Rng("*", 0),
                warnings |-> <<[condition |-> [kind |-> "number", num |-> 16], message |-> "m"]>>],
               [package |-> "b", version |-> Rng("*", 0),
                incompatibleWith |-> <<[package |-> "a", versionRange |-> Rng("*", 0), reason |-> "r"]>>]>>,
   deprecated |-> <<[package |-> "a", reason |-> "a is deprecated", replacement |-> "a2"]>>]

PassRulesFiles ==
  {[kind |-> "json", data |-> d] : d \in {RulesTypical, RulesSeverity, RulesCondition, RulesEsm, RulesAbort}}

ProjectIds == {1, 2}
Checkers == {1, 2}
Calls == 1..MaxCalls

\* ---------------------------------------------------------------- state
VARIABLES
  projects,     \* the parsed project data, by project
  graphs,       \* the DependencyGraph built from each project
  built,        \* history: the graphs as buildFromProject returned them
  rulesFile,    \* the file at rulesPath
  nodeVersion,  \* process.version
  rules,        \* this.rules of each checker
  issues,       \* this.issues of each checker
  reads,        \* history: number of fs.readFile calls made by each checker
  lastRun,      \* history: the call that last reset each checker's accumulator
  pc,           \* where each check() call is
  self,         \* the checker a call was made on
  arg,          \* the project whose graph and metadata a call was given
  returned,     \* the list a call's promise resolved with
  summaryRead,  \* what the caller's getSummary() gave, read after the call returned
  graph,        \* a DependencyGraph under construction
  source,       \* history: the package.json and lock the graph was built from
  added,        \* history: the addEdge calls made on graph by its user, in order
  query,        \* history: the arguments of the latest findPaths call on graph
  paths,        \* what that call returned
  stats,        \* what getStats() returned for graph
  cli,          \* the CLI process: whether it has exited, and its exit code
  plugins,      \* PluginManager: this.plugins
  registeredLanguages,  \* PluginManager: this.registeredLanguages
  registerCalls,  \* history: the register() calls, each with its outcome
  best,         \* what getBestPlugin returned or raised
  useCache,     \* NpmRegistry: this.useCache
  cacheFiles,   \* the files of the cache directory
  cleared       \* history: the latest clearCache call and the files it found

\* the graph under construction and what was asked of it
graphing == <<graph, source, added, query, paths, stats>>

\* the plugin manager
managing == <<plugins, registeredLanguages, registerCalls, best>>

\* the registry cache
caching == <<useCache, cacheFiles, cleared>>

vars == <<projects, graphs, built, rulesFile, nodeVersion, rules, issues, reads, lastRun,
          pc, self, arg, returned, summaryRead, graphing, cli, managing, caching>>

\* what check() and getSummary() leave alone
env == <<projects, built, rulesFile, nodeVersion, graphing, cli, managing, caching>>

\* the state of the checkers and of their calls
checking == <<projects, graphs, built, rulesFile, nodeVersion, rules, issues, reads, lastRun,
              pc, self, arg, returned, summaryRead>>

\* what the operations of the graph leave alone
outsideGraph == <<checking, cli, managing, caching>>

NoSource == [built |-> FALSE]
NoQuery == [asked |-> FALSE]
NoStats == [asked |-> FALSE]
NoExit == [exited |-> FALSE]
NoBest == [asked |-> FALSE]
NoClear == [called |-> FALSE]

\* no CLI run has ended
InitExit == cli = NoExit

\* PluginManager.constructor
InitManager ==
  /\ plugins = <<>>
  /\ registeredLanguages = <<>>
  /\ registerCalls = <<>>
  /\ best = NoBest

\* NpmRegistry.constructor with the cache in use; no cache directory yet
InitRegistry ==
  /\ useCache = TRUE
  /\ cacheFiles = [exists |-> FALSE, files |-> {}]
  /\ cleared = NoClear

\* a graph as constructed, before any call on it
InitGraph ==
  /\ graph = EmptyGraph
  /\ source = NoSource
  /\ added = <<>>
  /\ query = NoQuery
  /\ paths = <<>>
  /\ stats = NoStats

NotLoaded == [loaded |-> FALSE]
NotRead == [read |-> FALSE]

\* the graphs as built from the projects, and checkers and calls as
\* constructed: no rules, no issues, no call made
InitCheckers ==
  /\ graphs = [p \in ProjectIds |-> buildFromProject(projects[p])]
  /\ built = graphs
  /\ rules = [i \in Checkers |-> NotLoaded]
  /\ issues = [i \in Checkers |-> <<>>]
  /\ reads = [i \in Checkers |-> 0]
  /\ lastRun = [i \in Checkers |-> 0]
  /\ pc = [c \in Calls |-> "idle"]
  /\ self = [c \in Calls |-> 1]
  /\ arg = [c \in Calls |-> 1]
  /\ returned = [c \in Calls |-> <<>>]
  /\ summaryRead = [c \in Calls |-> NotRead]

Init ==
  /\ projects \in {[p \in ProjectIds |-> ProjectDatas[IF p = 1 THEN a ELSE b]] :
                      <<a, b>> \in {x \in (DOMAIN ProjectDatas) \X (DOMAIN ProjectDatas) : x[1] < x[2]}}
  /\ rulesFile \in RulesFiles
  /\ nodeVersion \in NodeVersions
  /\ InitCheckers
  /\ InitGraph
  /\ InitExit
  /\ InitManager
  /\ InitRegistry

\* one project and one checker used by every call, the rules file always readable
InitPasses ==
  /\ projects \in {[p \in ProjectIds |-> w] : w \in PassProjects}
  /\ rulesFile \in PassRulesFiles
  /\ nodeVersion \in PassNodeVersions
  /\ InitCheckers
  /\ InitGraph
  /\ InitExit
  /\ InitManager
  /\ InitRegistry

\* variant: the rules are loaded on every call
NeedsLoad_Always(i) == TRUE

\* `if (!this.rules)`
NeedsLoad(i) == ~rules[i].loaded

\* variant: the arguments are kept on the instance, so that a call resumed
\* after the await sees those of the latest call made on its checker
ArgOf_Shared(c) ==
  LET latest == CHOOSE d \in Calls : /\ pc[d] # "idle" /\ self[d] = self[c]
                                      /\ \A e \in Calls : (pc[e] # "idle" /\ self[e] = self[c]) => e <= d
  IN arg[latest]

\* graph and projectMetadata are parameters of check(), local to the call
ArgOf(c) == arg[c]

\* variant: the peer pass consumes the peer declarations it has examined
Evaluate_Consuming(c, i, p, data) ==
  LET r == RunChecks(data, issues[i], graphs[p], projects[p].metadata, nodeVersion)
  IN /\ issues' = [issues EXCEPT ![i] = r.issues]
     /\ lastRun' = [lastRun EXCEPT ![i] = c]
     /\ pc' = [pc EXCEPT ![c] = IF r.threw THEN "threw" ELSE "returned"]
     /\ returned' = [returned EXCEPT ![c] = IF r.threw THEN <<>> ELSE r.issues]
     /\ graphs' = [graphs EXCEPT ![p].nodes =
                      [k \in DOMAIN graphs[p].nodes |-> [graphs[p].nodes[k] EXCEPT !.peerDependencies = <<>>]]]

\* check(), lines 190-207, run by call c on checker i with the rules data
\* the checker holds: reset, five passes, return (or the exception of a pass)
Evaluate(c, i, p, data) ==
  LET r == RunChecks(data, issues[i], graphs[p], projects[p].metadata, nodeVersion)
  IN /\ issues' = [issues EXCEPT ![i] = r.issues]
     /\ lastRun' = [lastRun EXCEPT ![i] = c]
     /\ pc' = [pc EXCEPT ![c] = IF r.threw THEN "threw" ELSE "returned"]
     /\ returned' = [returned EXCEPT ![c] = IF r.threw THEN <<>> ELSE r.issues]
     /\ graphs' = graphs

\* calls are numbered in the order they are made, checkers in the order
\* they are first used
CanCall(c, i) ==
  /\ pc[c] = "idle"
  /\ IF c = 1 THEN i = 1 ELSE pc[c - 1] # "idle"

\* check() on a checker that holds rules: no await, runs to its return
CheckCached(c, i, p) ==
  /\ CanCall(c, i)
  /\ ~NeedsLoad(i)
  /\ self' = [self EXCEPT ![c] = i]
  /\ arg' = [arg EXCEPT ![c] = p]
  /\ Evaluate(c, i, p, rules[i].data)
  /\ UNCHANGED <<env, rules, reads, summaryRead>>

\* check() on a checker without rules: loadRules() starts reading the file
\* and the call is suspended at the await
CheckLoad(c, i, p) ==
  /\ CanCall(c, i)
  /\ NeedsLoad(i)
  /\ self' = [self EXCEPT ![c] = i]
  /\ arg' = [arg EXCEPT ![c] = p]
  /\ reads' = [reads EXCEPT ![i] = @ + 1]
  /\ pc' = [pc EXCEPT ![c] = "awaitLoad"]
  /\ UNCHANGED <<env, graphs, rules, issues, lastRun, returned, summaryRead>>

\* loadRules() throws: readFile or JSON.parse failed; check() rejects
LoadFailed(c) ==
  /\ pc[c] = "awaitLoad"
  /\ ~loadRules(rulesFile).ok
  /\ pc' = [pc EXCEPT ![c] = "loadFailed"]
  /\ UNCHANGED <<env, graphs, rules, issues, reads, lastRun, self, arg, returned, summaryRead>>

\* loadRules() stores the parsed rules; check() resumes and runs to its return
LoadSucceeded(c) ==
  /\ pc[c] = "awaitLoad"
  /\ loadRules(rulesFile).ok
  /\ rules' = [rules EXCEPT ![self[c]] = [loaded |-> TRUE, data |-> loadRules(rulesFile).rules]]
  /\ Evaluate(c, self[c], ArgOf(c), loadRules(rulesFile).rules)
  /\ UNCHANGED <<env, reads, self, arg, summaryRead>>

\* variant: the summary is computed from the list the call returned
GetSummary_OwnList(c) ==
  /\ pc[c] = "returned"
  /\ ~summaryRead[c].read
  /\ summaryRead' = [summaryRead EXCEPT ![c] = [read |-> TRUE,
                                                ranLast |-> lastRun[self[c]],
                                                summary |-> getSummary(returned[c]),
                                                bySeverity |-> getIssuesBySeverity(returned[c])]]
  /\ UNCHANGED <<env, graphs, rules, issues, reads, lastRun, pc, self, arg, returned>>

\* the caller of call c, resumed after the call returned, reads getSummary()
GetSummary(c) ==
  /\ pc[c] = "returned"
  /\ ~summaryRead[c].read
  /\ summaryRead' = [summaryRead EXCEPT ![c] = [read |-> TRUE,
                                                ranLast |-> lastRun[self[c]],
                                                summary |-> getSummary(issues[self[c]]),
                                                bySeverity |-> getIssuesBySeverity(issues[self[c]])]]
  /\ UNCHANGED <<env, graphs, rules, issues, reads, lastRun, pc, self, arg, returned>>

Next ==
  \/ \E c \in Calls, i \in Checkers, p \in ProjectIds : CheckCached(c, i, p)
  \/ \E c \in Calls, i \in Checkers, p \in ProjectIds : CheckLoad(c, i, p)
  \/ \E c \in Calls : LoadFailed(c)
  \/ \E c \in Calls : LoadSucceeded(c)
  \/ \E c \in Calls : GetSummary(c)

Spec == Init /\ [][Next]_vars

NextPasses ==
  \/ \E c \in Calls : CheckCached(c, 1, 1)
  \/ \E c \in Calls : CheckLoad(c, 1, 1)
  \/ \E c \in Calls : LoadSucceeded(c)
  \/ \E c \in Calls : GetSummary(c)

SpecPasses == InitPasses /\ [][NextPasses]_vars

\* ---- the graph on its own: built from a project or node by node and
\* edge by edge, then queried
GraphNames == {"a", "b", "c"}

Dep(name, range) == [name |-> name, range |-> range]

PackageJsons ==
  {\* no dependency declared
   [name |-> "proj", version |-> 10],
   [name |-> "proj", version |-> 10,
    dependencies |-> <<Dep("a", Rng("^", 10))>>,
    devDependencies |-> <<Dep("b", Rng("^", 10))>>,
    peerDependencies |-> <<Dep("c", Rng("^", 10))>>],
   \* a is declared twice
   [name |-> "proj", version |-> 10,
    dependencies |-> <<Dep("a", Rng("^", 10)), Dep("b", Rng("^", 10))>>,
    devDependencies |-> <<Dep("a", Rng("^", 20))>>,
    optionalDependencies |-> <<Dep("c", Rng("^", 10))>>],
   \* peer dependencies only
   [name |-> "proj", version |-> 10,
    peerDependencies |-> <<Dep("a", Rng("^", 10))>>]}

PackageLocks ==
  {NoLock,
   [exists |-> TRUE,
    packages |-> <<[pkgPath |-> <<>>, metadata |-> [version |-> 10]],
                   [pkgPath |-> <<"node_modules/", "a">>,
                    metadata |-> [version |-> 10, dependencies |-> <<Dep("c", Rng("^", 10))>>]],
                   [pkgPath |-> <<"node_modules/", "b">>,
                    metadata |-> [version |-> 10, dev |-> TRUE,
                                  dependencies |-> <<Dep("a", Rng("^", 10))>>]]>>]}

\* the maxDepth of a query: an explicit 1 or 2, or the default
Depths == {1, 2, DefaultMaxDepth}

RECURSIVE EdgeCount(_)
\* the number of edges of a Map of edge lists
EdgeCount(edges) ==
  IF edges = <<>> THEN 0 ELSE Len(Head(edges).list) + EdgeCount(Tail(edges))

\* the graph is under construction: nothing has been asked of it yet
Constructing == ~query.asked /\ ~stats.asked

\* PackageParser.parseProject then DependencyGraph.buildFromProject
Build(packageJson, packageLock) ==
  /\ source = NoSource
  /\ graph = EmptyGraph
  /\ Constructing
  /\ graph' = buildFromProject(parseProject(packageJson, packageLock))
  /\ source' = [built |-> TRUE, packageJson |-> packageJson, packageLock |-> packageLock]
  /\ UNCHANGED <<outsideGraph, added, query, paths, stats>>

\* graph.addNode(name, {version: '1.0.0'})
AddNode(name) ==
  /\ Constructing
  /\ graph' = addNode(graph, name, [version |-> 10])
  /\ UNCHANGED <<outsideGraph, source, added, query, paths, stats>>

\* graph.addEdge(from, to, '^1.0.0')
AddEdge(from, to) ==
  /\ Constructing
  /\ EdgeCount(graph.edges) < MaxEdges
  /\ graph' = addEdge(graph, from, to, Rng("^", 10))
  /\ added' = Append(added, [from |-> from, to |-> to, versionRange |-> Rng("^", 10)])
  /\ UNCHANGED <<outsideGraph, source, query, paths, stats>>

\* graph.findPaths(from, to, maxDepth), which reads the graph and leaves it
\* as it is: each graph is queried once, when its construction is over
FindPaths(from, to, maxDepth) ==
  /\ Constructing
  /\ query' = [asked |-> TRUE, from |-> from, to |-> to, maxDepth |-> maxDepth]
  /\ paths' = findPaths(graph, from, to, maxDepth)
  /\ UNCHANGED <<outsideGraph, graph, source, added, stats>>

\* graph.getStats(), which reads the graph and leaves it as it is
GetStats ==
  /\ Constructing
  /\ stats' = [asked |-> TRUE, value |-> getStats(graph)]
  /\ UNCHANGED <<outsideGraph, graph, source, added, query, paths>>

\* no checker is used: one project, no rules file
InitGraphOnly ==
  /\ projects = [p \in ProjectIds |-> ProjectDatas[1]]
  /\ rulesFile = [kind |-> "missing"]
  /\ nodeVersion = 20
  /\ InitCheckers
  /\ InitGraph
  /\ InitExit
  /\ InitManager
  /\ InitRegistry

NextGraph ==
  \/ \E packageJson \in PackageJsons, packageLock \in PackageLocks : Build(packageJson, packageLock)
  \/ \E name \in {"a", "b"} : AddNode(name)
  \/ \E from \in {"a", "b"}, to \in GraphNames : AddEdge(from, to)
  \/ \E from \in {Root, "a", "c"}, to \in GraphNames, maxDepth \in Depths : FindPaths(from, to, maxDepth)
  \/ GetStats

SpecGraph == InitGraphOnly /\ [][NextGraph]_vars

\* ---- the command line: `compatify check` and `compatify scan <path>` both
\* run checkProject, which awaits checkCompatibility (parseProject,
\* buildFromProject, a new CompatibilityChecker, check(), getSummary()),
\* prints, and exits.  cli.readable tells whether package.json can be read
\* and parsed.
\* variant: any issue makes the run fail
ExitCodeFor_AnyIssue(summary) == IF summary.total > 0 THEN 1 ELSE 0

\* `if (summary.errors > 0) process.exit(1)`, else the process ends with 0
ExitCodeFor(summary) == IF summary.errors > 0 THEN 1 ELSE 0

CliRulesFiles == PassRulesFiles \cup {[kind |-> "missing"], [kind |-> "malformed"]}

InitCli ==
  /\ projects \in {[p \in ProjectIds |-> w] : w \in PassProjects}
  /\ rulesFile \in CliRulesFiles
  /\ nodeVersion \in PassNodeVersions
  /\ InitCheckers
  /\ InitGraph
  /\ cli \in {[exited |-> FALSE, readable |-> b] : b \in BOOLEAN}
  /\ InitManager
  /\ InitRegistry

CliRunning == ~cli.exited /\ cli.readable

Exit(code) == cli' = [exited |-> TRUE, readable |-> cli.readable, code |-> code]

\* parsePackageJson throws; checkProject's catch prints and exits
CliParseFailed ==
  /\ ~cli.exited
  /\ ~cli.readable
  /\ Exit(1)
  /\ UNCHANGED <<checking, graphing, managing, caching>>

\* check() rejected: the rules could not be loaded, or a pass raised
CliCatch ==
  /\ CliRunning
  /\ pc[1] \in {"loadFailed", "threw"}
  /\ Exit(1)
  /\ UNCHANGED <<checking, graphing, managing, caching>>

\* checkCompatibility returned {issues, summary, metadata}
CliEnd ==
  /\ CliRunning
  /\ summaryRead[1].read
  /\ Exit(ExitCodeFor(summaryRead[1].summary))
  /\ UNCHANGED <<checking, graphing, managing, caching>>

NextCli ==
  \/ CliParseFailed
  \/ CliRunning /\ CheckLoad(1, 1, 1)
  \/ CliRunning /\ LoadFailed(1)
  \/ CliRunning /\ LoadSucceeded(1)
  \/ CliRunning /\ GetSummary(1)
  \/ CliCatch
  \/ CliEnd

SpecCli == InitCli /\ [][NextCli]_vars

\* ---- PluginManager.  A plugin is a record [name, language, manifestFiles,
\* priority, detects]: priority is what getPriority() returns and detects
\* is what detectProject(projectPath) does for the project at hand: "yes",
\* "no", or "throw".  this.plugins is a Map from language to plugin, kept
\* as entries [language, plugin] in insertion order; registeredLanguages
\* is a Set, kept as the sequence of its members in insertion order.
MaxRegisters == 3

\* BasePlugin.getPriority and NodePlugin.getPriority
DefaultPriority == 50
NodePriority == 70

\* BasePlugin.validate
validate(plugin) ==
  /\ plugin.name # "" /\ plugin.name # "base"
  /\ plugin.language # "" /\ plugin.language # "unknown"
  /\ plugin.manifestFiles # <<>>

\* Set.add
SetAdd(members, x) == IF \E k \in DOMAIN members : members[k] = x THEN members ELSE Append(members, x)

\* variant: a later plugin replaces the one registered for its language
register_Overwrite(map, languages, plugin) ==
  IF ~validate(plugin) THEN [threw |-> TRUE, plugins |-> map, registeredLanguages |-> languages]
  ELSE [threw |-> FALSE,
        plugins |-> MapSet(map, "language", [language |-> plugin.language, plugin |-> plugin]),
        registeredLanguages |-> SetAdd(languages, plugin.language)]

\* register(plugin): the exception, or the map and the set as it leaves them
register(map, languages, plugin) ==
  IF ~validate(plugin) THEN [threw |-> TRUE, plugins |-> map, registeredLanguages |-> languages]
  ELSE IF IndexOf(map, "language", plugin.language) # 0
  THEN [threw |-> TRUE, plugins |-> map, registeredLanguages |-> languages]
  ELSE [threw |-> FALSE,
        plugins |-> MapSet(map, "language", [language |-> plugin.language, plugin |-> plugin]),
        registeredLanguages |-> SetAdd(languages, plugin.language)]

\* getPlugin: the plugin, or NoPlugin for null
NoPlugin == [kind |-> "null"]
getPlugin(map, language) ==
  IF IndexOf(map, "language", language) = 0 THEN NoPlugin
  ELSE [kind |-> "plugin", plugin |-> map[IndexOf(map, "language", language)].plugin]

\* the loop of detectPlugins: a plugin whose detection throws is skipped
RECURSIVE Matches(_)
Matches(map) ==
  IF map = <<>> THEN <<>>
  ELSE LET plugin == Head(map).plugin
       IN (IF plugin.detects = "yes"
           THEN <<[plugin |-> plugin, language |-> plugin.language, priority |-> plugin.priority]>>
           ELSE <<>>) \o Matches(Tail(map))

\* Array.prototype.sort with (a, b) => b.priority - a.priority: stable,
\* highest priority first
RECURSIVE InsertByPriority(_, _)
InsertByPriority(sorted, m) ==
  IF sorted = <<>> THEN <<m>>
  ELSE IF Head(sorted).priority >= m.priority
       THEN <<Head(sorted)>> \o InsertByPriority(Tail(sorted), m)
       ELSE <<m>> \o sorted

RECURSIVE SortByPriority(_)
SortByPriority(matches) ==
  IF matches = <<>> THEN <<>>
  ELSE InsertByPriority(SortByPriority(SubSeq(matches, 1, Len(matches) - 1)), matches[Len(matches)])

detectPlugins(map) == SortByPriority(Matches(map))

\* variant: a preferred language that does not fit falls back to detection
getBestPlugin_Fallback(map, preferredLanguage) ==
  LET matches == detectPlugins(map)
      preferred == IF preferredLanguage = Undefined THEN NoPlugin ELSE getPlugin(map, preferredLanguage)
  IN IF preferred.kind = "plugin" /\ preferred.plugin.detects = "yes" THEN preferred
     ELSE IF matches = <<>> THEN NoPlugin
     ELSE [kind |-> "plugin", plugin |-> matches[1].plugin]

\* getBestPlugin(projectPath, preferredLanguage): a plugin, null, or the
\* exception it raises; Undefined stands for a preference not given
getBestPlugin(map, preferredLanguage) ==
  IF preferredLanguage # Undefined
  THEN LET plugin == getPlugin(map, preferredLanguage)
       IN IF plugin.kind = "plugin"
          THEN CASE plugin.plugin.detects = "yes" -> plugin
                 [] plugin.plugin.detects = "no" -> [kind |-> "error", error |-> "not such a project"]
                 [] OTHER -> [kind |-> "error", error |-> "detection failed"]
          ELSE [kind |-> "error", error |-> "no plugin registered"]
  ELSE LET matches == detectPlugins(map)
       IN IF matches = <<>> THEN NoPlugin
          ELSE [kind |-> "plugin", plugin |-> matches[1].plugin]

\* the plugins a caller may hand to register
PluginLanguages == {"nodejs", "python", "go"}
ValidPlugins ==
  {[name |-> IF l = "nodejs" THEN "node" ELSE l, language |-> l, manifestFiles |-> <<"manifest">>,
    priority |-> p, detects |-> d] :
     l \in PluginLanguages, p \in {DefaultPriority, NodePriority}, d \in {"yes", "no", "throw"}}
InvalidPlugins ==
  {[name |-> "base", language |-> "unknown", manifestFiles |-> <<>>, priority |-> DefaultPriority, detects |-> "throw"],
   [name |-> "node", language |-> "nodejs", manifestFiles |-> <<>>, priority |-> NodePriority, detects |-> "yes"],
   [name |-> "", language |-> "python", manifestFiles |-> <<"manifest">>, priority |-> NodePriority, detects |-> "yes"]}
PluginPool == ValidPlugins \cup InvalidPlugins

\* the preferences a caller may pass: none, a registered or an unregistered language
Preferences == {Undefined, "nodejs", "python", "ruby"}

InitPlugins == InitGraphOnly

\* registrations come before the query, which changes nothing
Register(plugin) ==
  /\ ~best.asked
  /\ Len(registerCalls) < MaxRegisters
  /\ LET r == register(plugins, registeredLanguages, plugin)
     IN /\ plugins' = r.plugins
        /\ registeredLanguages' = r.registeredLanguages
        /\ registerCalls' = Append(registerCalls, [plugin |-> plugin, threw |-> r.threw])
  /\ UNCHANGED <<checking, graphing, cli, caching, best>>

GetBestPlugin(preferredLanguage) ==
  /\ ~best.asked
  /\ best' = [asked |-> TRUE, preferredLanguage |-> preferredLanguage,
              result |-> getBestPlugin(plugins, preferredLanguage)]
  /\ UNCHANGED <<checking, graphing, cli, caching, plugins, registeredLanguages, registerCalls>>

NextPlugins ==
  \/ \E plugin \in PluginPool : Register(plugin)
  \/ \E preferredLanguage \in Preferences : GetBestPlugin(preferredLanguage)

SpecPlugins == InitPlugins /\ [][NextPlugins]_vars

\* ---- NpmRegistry: the manifest cache.  A package name and a file name
\* are sequences of tokens, a token being "/", "-", or a run of other
\* characters; the cache directory is [exists, files].
\* packageName.replaceAll('/', '-')
SafeName(packageName) == [k \in DOMAIN packageName |-> IF packageName[k] = "/" THEN "-" ELSE packageName[k]]

\* the file name of _getCachePath: `${safeName}-${version}.json`
getCachePath(packageName, version) == SafeName(packageName) \o <<"-", version, ".json">>

\* String.prototype.startsWith
StartsWith(f, prefix) == Len(f) >= Len(prefix) /\ SubSeq(f, 1, Len(prefix)) = prefix

\* initCache: mkdir -p of the cache directory
initCache(use, dir) == IF use /\ ~dir.exists THEN [exists |-> TRUE, files |-> dir.files] ELSE dir

\* _writeCache: writeFile fails, with a warning, when the directory is missing
writeCache(use, dir, file) ==
  IF use /\ dir.exists THEN [exists |-> TRUE, files |-> dir.files \cup {file}] ELSE dir

\* clearCache(packageName): <<>> stands for a name not given; readdir throws
\* on a missing directory and the catch only warns
clearCache(use, dir, packageName) ==
  IF ~use THEN dir
  ELSE IF packageName # <<>>
       THEN [exists |-> dir.exists,
             files |-> {f \in dir.files : ~StartsWith(f, SafeName(packageName))}]
       ELSE [exists |-> TRUE, files |-> {}]

CachePackages == {<<"react">>, <<"react", "-", "dom">>, <<"vue">>, <<"@s", "/", "react">>}
CacheVersions == {"latest", "18.0.0"}

InitCache ==
  /\ projects = [p \in ProjectIds |-> ProjectDatas[1]]
  /\ rulesFile = [kind |-> "missing"]
  /\ nodeVersion = 20
  /\ InitCheckers
  /\ InitGraph
  /\ InitExit
  /\ InitManager
  /\ useCache \in BOOLEAN
  /\ cacheFiles = [exists |-> FALSE, files |-> {}]
  /\ cleared = NoClear

\* fetchPackageManifest(packageName, version): a valid cached manifest is
\* returned as it is; otherwise the registry answers (fetched) or fails,
\* and an answer is written to the cache
FetchPackageManifest(packageName, version, fetched) ==
  /\ ~cleared.called
  /\ LET dir == initCache(useCache, cacheFiles)
         file == getCachePath(packageName, version)
     IN cacheFiles' = IF file \notin dir.files /\ fetched THEN writeCache(useCache, dir, file) ELSE dir
  /\ UNCHANGED <<checking, graphing, cli, managing, useCache, cleared>>

ClearCache(packageName) ==
  /\ ~cleared.called
  /\ cacheFiles' = clearCache(useCache, cacheFiles, packageName)
  /\ cleared' = [called |-> TRUE, packageName |-> packageName, before |-> cacheFiles]
  /\ UNCHANGED <<checking, graphing, cli, managing, useCache>>

NextCache ==
  \/ \E packageName \in CachePackages, version \in CacheVersions, fetched \in BOOLEAN :
       FetchPackageManifest(packageName, version, fetched)
  \/ \E packageName \in CachePackages \cup {<<>>} : ClearCache(packageName)

SpecCache == InitCache /\ [][NextCache]_vars

\* ------------------------------------------------------------ properties
\* what a fresh checker returns for the inputs of call c
Fresh(c) ==
  RunChecks(rulesFile.data, <<>>, built[arg[c]], projects[arg[c]].metadata, nodeVersion).issues

Recognized == {"error", "warning", "info"}

\* C1: when a check() call has returned, the issue list the instance holds
\* is the list that call returned, and it is the list a fresh instance
\* returns for the same graph and metadata: nothing of an earlier call remains.
C1_NoAccumulation ==
  \A i \in Checkers :
    (lastRun[i] # 0 /\ pc[lastRun[i]] = "returned")
      => /\ issues[i] = returned[lastRun[i]]
         /\ issues[i] = Fresh(lastRun[i])

\* two calls in sequence on one checker, the first with issues, different lists
C1_Witness ==
  /\ pc[1] = "returned" /\ pc[2] = "returned"
  /\ self[1] = self[2] /\ reads[self[1]] = 1
  /\ returned[1] # <<>> /\ returned[2] # returned[1]
  /\ lastRun[self[2]] = 2 /\ issues[self[2]] = returned[2]

\* ---- C2
NodeNames(g) == {g.nodes[k].name : k \in DOMAIN g.nodes}
NodeNamed(g, name) == g.nodes[CHOOSE k \in DOMAIN g.nodes : g.nodes[k].name = name]

\* the (package, peer) declarations of the non-root nodes of g
PeerPairs(g) ==
  UNION {{<<node.name, node.peerDependencies[j]>> : j \in DOMAIN node.peerDependencies} :
           node \in {g.nodes[k] : k \in {x \in DOMAIN g.nodes : g.nodes[x].name # Root}}}

IssuesAbout(list, type, package, peerPackage) ==
  {k \in DOMAIN list : list[k].type = type /\ list[k].package = package /\ list[k].peerPackage = peerPackage}

\* C2: the peer pass emits, for each declaration (P, Q) of a non-root node,
\* one missing-peer-dependency error iff Q has no node, one
\* peer-dependency-mismatch error carrying Q's installed version iff Q has
\* a node whose version fails the range, never both, and nothing else.
C2_PeerPass ==
  \A p \in ProjectIds :
    LET g == graphs[p]
        out == checkPeerDependencies(g, <<>>)
        bad == {d \in PeerPairs(g) : d[2].name \notin NodeNames(g)
                                     \/ ~Satisfies(NodeNamed(g, d[2].name).version, d[2].range)}
    IN /\ \A d \in PeerPairs(g) :
            LET missing == IssuesAbout(out, "missing-peer-dependency", d[1], d[2].name)
                mismatch == IssuesAbout(out, "peer-dependency-mismatch", d[1], d[2].name)
            IN /\ Cardinality(missing) = (IF d[2].name \notin NodeNames(g) THEN 1 ELSE 0)
               /\ Cardinality(mismatch) =
                    (IF d[2].name \in NodeNames(g) /\ ~Satisfies(NodeNamed(g, d[2].name).version, d[2].range)
                     THEN 1 ELSE 0)
               /\ \A k \in missing \cup mismatch : out[k].severity = "error"
               /\ \A k \in mismatch : out[k].installedVersion = NodeNamed(g, d[2].name).version
               /\ Cardinality(missing) + Cardinality(mismatch) <= 1
       /\ Len(out) = Cardinality(bad)

\* a check has returned on a graph with a satisfied and a missing peer, and
\* one on a graph with a mismatched peer
C2_Witness ==
  \E c, d \in Calls :
    /\ pc[c] = "returned" /\ pc[d] = "returned"
    /\ \E k \in DOMAIN returned[c] : returned[c][k].type = "peer-dependency-mismatch"
    /\ \E k \in DOMAIN returned[d] : returned[d][k].type = "missing-peer-dependency"
    /\ \E x \in PeerPairs(graphs[arg[d]]) :
         /\ x[2].name \in NodeNames(graphs[arg[d]])
         /\ Satisfies(NodeNamed(graphs[arg[d]], x[2].name).version, x[2].range)

\* C3 (as claimed): for the issue list of every checker, getSummary().total
\* equals errors + warnings + info and equals the length of the list.
C3_SummaryTotals ==
  \A i \in Checkers :
    LET summary == getSummary(issues[i])
    IN /\ summary.total = summary.errors + summary.warnings + summary.info
       /\ summary.total = Len(issues[i])

\* C4 (as claimed): getIssuesBySeverity() puts every issue of the
\* accumulator in exactly one bucket, an issue whose severity is unset or
\* not one of error, warning, info in the warning bucket.
C4_EveryIssueBucketed ==
  \A i \in Checkers :
    LET grouped == getIssuesBySeverity(issues[i])
        In(list, issue) == \E k \in DOMAIN list : list[k] = issue
    IN \A j \in DOMAIN issues[i] :
         LET issue == issues[i][j]
         IN IF Has(issue, "severity") /\ issue.severity \in Recognized
            THEN In(grouped[issue.severity], issue)
            ELSE In(grouped.warning, issue)

\* C5: when the rules file is missing, unreadable or not JSON, every
\* check() call ends rejected at the load: no pass runs on any checker, no
\* list is returned, no rules are stored.
C5_LoadFailureAborts ==
  ~(rulesFile.kind = "json") =>
     /\ \A c \in Calls : pc[c] \in {"idle", "awaitLoad", "loadFailed"} /\ returned[c] = <<>>
     /\ \A i \in Checkers : lastRun[i] = 0 /\ issues[i] = <<>> /\ ~rules[i].loaded

\* a call has been rejected by the load failure
C5_Witness ==
  \E c \in Calls : pc[c] = "loadFailed" /\ rulesFile.kind \in {"missing", "malformed"}

\* C6 (as claimed): a check() call that fails has not left issues of its
\* passes in the accumulator.
C6_NoPartialResults ==
  \A c \in Calls :
    (pc[c] = "threw" /\ lastRun[self[c]] = c) => issues[self[c]] = <<>>

\* C7: the summary a caller reads after its call returned describes the
\* accumulator as the call that ran last on that checker left it, which
\* need not be the caller's own call.
C7_SummaryOfLastRun ==
  \A c \in Calls :
    (summaryRead[c].read /\ pc[summaryRead[c].ranLast] = "returned")
      => /\ summaryRead[c].summary = getSummary(returned[summaryRead[c].ranLast])
         /\ summaryRead[c].bySeverity = getIssuesBySeverity(returned[summaryRead[c].ranLast])

\* the race: two overlapping calls on one checker, and the summary read
\* after call c returned is that of the other call's list, not of c's
C7_Witness ==
  \E c, d \in Calls :
    /\ c # d /\ self[c] = self[d] /\ reads[self[c]] = 2
    /\ pc[c] = "returned" /\ pc[d] = "returned"
    /\ summaryRead[c].read
    /\ summaryRead[c].summary # getSummary(returned[c])
    /\ summaryRead[c].bySeverity # getIssuesBySeverity(returned[c])
    /\ summaryRead[c].summary = getSummary(returned[d])

\* C8: the list a check() call returns is the list of its own graph and
\* metadata, also when other calls on the same checker are in flight.
C8_ReturnsOwnIssues ==
  \A c \in Calls : pc[c] = "returned" => returned[c] = Fresh(c)

\* a call returned its issues while a call made later on the same checker,
\* for another graph, is suspended at the rules load
C8_Witness ==
  \E c, d \in Calls :
    /\ c < d /\ self[c] = self[d] /\ arg[c] # arg[d]
    /\ pc[c] = "returned" /\ pc[d] = "awaitLoad"
    /\ returned[c] # <<>> /\ Fresh(d) # Fresh(c)

\* C9: check() leaves every graph as built, and calls made on separate
\* checkers over one graph return the same list, that of a call run alone.
C9_GraphReadOnly ==
  /\ graphs = built
  /\ \A c, d \in Calls :
       (c # d /\ self[c] # self[d] /\ arg[c] = arg[d] /\ pc[c] = "returned" /\ pc[d] = "returned")
         => returned[c] = returned[d]

\* a check has returned its issues while a check made on another checker
\* over the same graph is suspended at its rules load
C9_Witness ==
  \E c, d \in Calls :
    /\ c # d /\ self[c] # self[d] /\ arg[c] = arg[d]
    /\ pc[c] = "returned" /\ pc[d] = "awaitLoad"
    /\ returned[c] # <<>>
    /\ graphs[arg[c]].nodes # <<>> /\ graphs = built

RulesOf(c) == rules[self[c]].data
GraphOf(c) == graphs[arg[c]]
MetadataOf(c) == projects[arg[c]].metadata

\* a call has run its passes: to the return, or to the exception of a pass
Ran(c) == pc[c] \in {"returned", "threw"}

\* the issues of the listed types, in list order
RECURSIVE OfTypes(_, _)
OfTypes(list, types) ==
  IF list = <<>> THEN <<>>
  ELSE (IF Head(list).type \in types THEN <<Head(list)>> ELSE <<>>) \o OfTypes(Tail(list), types)

\* C11: the list check() returns is the concatenation, in the order peer,
\* version (incompatibilities and warnings), deprecation, ESM, engine, of
\* what each pass gives when run alone on an empty accumulator.
C11_PassOrder ==
  \A c \in Calls :
    pc[c] = "returned" =>
      returned[c] = checkPeerDependencies(GraphOf(c), <<>>)
                    \o checkVersionIncompatibilities(RulesOf(c), GraphOf(c), nodeVersion, <<>>).issues
                    \o checkDeprecatedPackages(RulesOf(c), GraphOf(c), <<>>)
                    \o checkESMCompatibility(RulesOf(c), GraphOf(c), MetadataOf(c), <<>>)
                    \o checkEngineRequirements(RulesOf(c), GraphOf(c), MetadataOf(c), nodeVersion, <<>>)

\* a returned list to which each of the five passes has contributed
C11_Witness ==
  \E c \in Calls :
    /\ pc[c] = "returned"
    /\ OfTypes(returned[c], {"missing-peer-dependency", "peer-dependency-mismatch"}) # <<>>
    /\ OfTypes(returned[c], {"version-incompatibility"}) # <<>>
    /\ OfTypes(returned[c], {"deprecated-package"}) # <<>>
    /\ OfTypes(returned[c], {"esm-commonjs-conflict"}) # <<>>
    /\ OfTypes(returned[c], {"engine-mismatch", "node-version-eol"}) # <<>>

\* the (rule, counterpart) positions of the rules data
VersionPairs(R) ==
  IF ~Has(R, "rules") THEN {}
  ELSE UNION {{<<x, y>> : y \in DOMAIN R.rules[x].incompatibleWith} :
                x \in {z \in DOMAIN R.rules : Has(R.rules[z], "incompatibleWith")}}

\* the graph has a node for the package whose version lies in the range
InRange(g, package, range) ==
  \E k \in DOMAIN g.nodes : g.nodes[k].name = package /\ Satisfies(g.nodes[k].version, range)

\* the version-incompatibility issues of a list for a package and a counterpart
Incompatibilities(list, package, counterpart) ==
  {k \in DOMAIN list : /\ list[k].type = "version-incompatibility"
                       /\ list[k].package = package
                       /\ list[k].incompatiblePackage = counterpart}

\* C12: a check() run emits a version-incompatibility issue for rule R and
\* counterpart C iff R's package has a node satisfying R's gate and C's
\* package has a node in C's forbidden range, with C's severity or error.
C12_VersionPass ==
  \A c \in Calls :
    (Ran(c) /\ lastRun[self[c]] = c) =>
      LET out == issues[self[c]]
          g == GraphOf(c)
          R == RulesOf(c)
      IN \A d \in VersionPairs(R) :
           LET rule == R.rules[d[1]]
               counterpart == rule.incompatibleWith[d[2]]
               found == Incompatibilities(out, rule.package, counterpart.package)
           IN /\ Cardinality(found) =
                   (IF /\ InRange(g, rule.package, IF Has(rule, "version") THEN rule.version ELSE NoRange)
                       /\ InRange(g, counterpart.package, counterpart.versionRange)
                    THEN 1 ELSE 0)
              /\ \A k \in found :
                   out[k].severity = (IF Has(counterpart, "severity") THEN counterpart.severity ELSE "error")

\* the same, for the runs in which every pass completes
C12_CompletedRuns ==
  (\A c \in Calls : pc[c] # "threw") => C12_VersionPass

\* the deprecated-package issues of a list for a package
Deprecations(list, package) ==
  {k \in DOMAIN list : list[k].type = "deprecated-package" /\ list[k].package = package}

\* C13: for each package the rules list as deprecated, one check() run
\* emits exactly one deprecated-package issue when the package has a node,
\* whatever its version, with the rule's severity (default warning) and
\* replacement, and none when the package has no node.
C13_DeprecatedPass ==
  \A c \in Calls :
    (Ran(c) /\ lastRun[self[c]] = c /\ Has(RulesOf(c), "deprecated")) =>
      LET out == issues[self[c]]
          g == GraphOf(c)
      IN \A x \in DOMAIN RulesOf(c).deprecated :
           LET deprecation == RulesOf(c).deprecated[x]
               found == Deprecations(out, deprecation.package)
           IN /\ Cardinality(found) = (IF deprecation.package \in NodeNames(g) THEN 1 ELSE 0)
              /\ \A k \in found :
                   /\ out[k].severity = (IF Has(deprecation, "severity") THEN deprecation.severity ELSE "warning")
                   /\ out[k].replacement = (IF Has(deprecation, "replacement") THEN deprecation.replacement
                                            ELSE Undefined)

\* the same, for the runs in which every pass completes
C13_CompletedRuns ==
  (\A c \in Calls : pc[c] # "threw") => C13_DeprecatedPass

\* the esm-commonjs-conflict issues of a list for a package
EsmConflicts(list, package) ==
  {k \in DOMAIN list : list[k].type = "esm-commonjs-conflict" /\ list[k].package = package}

\* the module type the project declares, Undefined when it declares none
DeclaredType(projectMetadata) == IF Has(projectMetadata, "type") THEN projectMetadata.type ELSE Undefined

\* C14: when the project's module type is anything other than "module",
\* absent included, the list check() returns has one esm-commonjs-conflict
\* for each ESM rule whose package has a node satisfying the rule's gate,
\* with the rule's severity (default error) and a fix that installs the
\* rule's compatibleVersion.
C14_EsmPassRuns ==
  \A c \in Calls :
    (pc[c] = "returned" /\ DeclaredType(MetadataOf(c)) # "module" /\ Has(RulesOf(c), "esm")) =>
      \A x \in DOMAIN RulesOf(c).esm :
        LET esmRule == RulesOf(c).esm[x]
            found == EsmConflicts(returned[c], esmRule.package)
        IN /\ Cardinality(found) =
                (IF InRange(GraphOf(c), esmRule.package, IF Has(esmRule, "version") THEN esmRule.version ELSE NoRange)
                 THEN 1 ELSE 0)
           /\ \A k \in found :
                /\ returned[c][k].severity = (IF Has(esmRule, "severity") THEN esmRule.severity ELSE "error")
                /\ returned[c][k].fix = [install |-> esmRule.package,
                                         at |-> IF Has(esmRule, "compatibleVersion") THEN esmRule.compatibleVersion
                                                ELSE NoRange]

\* as coded: a project whose declared type is neither "commonjs" nor absent
\* gets no esm-commonjs-conflict
C14_CommonJsOnly ==
  \A c \in Calls :
    (pc[c] = "returned" /\ DeclaredType(MetadataOf(c)) \notin {"commonjs", Undefined}) =>
      \A k \in DOMAIN returned[c] : returned[c][k].type # "esm-commonjs-conflict"

\* C15: when the project's module type is "module", a check() run emits no
\* esm-commonjs-conflict issue.
C15_ModuleProjectNoEsm ==
  \A c \in Calls :
    (Ran(c) /\ DeclaredType(MetadataOf(c)) = "module") =>
      /\ \A k \in DOMAIN returned[c] : returned[c][k].type # "esm-commonjs-conflict"
      /\ \A k \in DOMAIN issues[self[c]] : issues[self[c]][k].type # "esm-commonjs-conflict"

\* a check of a "module" project has returned, with an ESM rule whose
\* package has a node satisfying the rule's gate
C15_Witness ==
  \E c \in Calls :
    /\ pc[c] = "returned"
    /\ DeclaredType(MetadataOf(c)) = "module"
    /\ Has(RulesOf(c), "esm")
    /\ \E x \in DOMAIN RulesOf(c).esm :
         InRange(GraphOf(c), RulesOf(c).esm[x].package, RulesOf(c).esm[x].version)
    /\ returned[c] # <<>>

\* the running engine fails a declared node range
Fails(range) == range # NoRange /\ ~Satisfies(nodeVersion, range)

\* C16: the engine issues of a check() run are, in this order: one
\* engine-mismatch error scoped to the project iff the project declares a
\* node range the running engine fails; one engine-mismatch warning per
\* non-root node that declares a node range the running engine fails; one
\* node-version-eol iff the lifecycle entry of the engine's major version
\* has status end-of-life, with the entry's severity (default warning) and
\* message.
C16_EnginePass ==
  \A c \in Calls :
    pc[c] = "returned" =>
      LET E == OfTypes(returned[c], {"engine-mismatch", "node-version-eol"})
          g == GraphOf(c)
          M == MetadataOf(c)
          R == RulesOf(c)
          projectFails == Has(M, "engines") /\ Fails(M.engines.node)
          failing == {k \in DOMAIN g.nodes : g.nodes[k].name # Root /\ Fails(g.nodes[k].engines.node)}
          table == IF Has(R, "engineRequirements") /\ Has(R.engineRequirements, "node")
                   THEN R.engineRequirements.node ELSE <<>>
          eol == {x \in DOMAIN table : table[x].major = Major(nodeVersion) /\ table[x].status = "end-of-life"}
          a == IF projectFails THEN 1 ELSE 0
          b == Cardinality(failing)
      IN /\ Len(E) = a + b + (IF eol # {} THEN 1 ELSE 0)
         /\ projectFails =>
              /\ E[1].type = "engine-mismatch" /\ E[1].severity = "error"
              /\ E[1].package = M.name /\ E[1].requiredNodeVersion = M.engines.node
         /\ \A j \in 1..b :
              /\ E[a + j].type = "engine-mismatch" /\ E[a + j].severity = "warning"
              /\ \E k \in failing : /\ E[a + j].package = g.nodes[k].name
                                    /\ E[a + j].requiredNodeVersion = g.nodes[k].engines.node
         /\ {E[a + j].package : j \in 1..b} = {g.nodes[k].name : k \in failing}
         /\ \A x \in eol :
              /\ E[a + b + 1].type = "node-version-eol"
              /\ E[a + b + 1].severity = (IF Has(table[x], "severity") THEN table[x].severity ELSE "warning")
              /\ E[a + b + 1].message = (IF Has(table[x], "message") THEN table[x].message ELSE Undefined)

\* a returned list holding the project's mismatch, a package's mismatch and
\* the end-of-life notice
C16_Witness ==
  \E c \in Calls :
    /\ pc[c] = "returned"
    /\ LET E == OfTypes(returned[c], {"engine-mismatch", "node-version-eol"})
       IN /\ Len(E) >= 3
          /\ E[1].severity = "error"
          /\ E[2].type = "engine-mismatch" /\ E[2].severity = "warning"
          /\ E[Len(E)].type = "node-version-eol"

\* ---- findPaths
\* the graph has an edge from u to v
Edge(g, u, v) == \E k \in DOMAIN getDependencies(g, u) : getDependencies(g, u)[k].to = v

\* the names the graph mentions, as a node or at an end of an edge
Mentioned(g) ==
  NodeNames(g) \cup {g.edges[i].from : i \in DOMAIN g.edges}
               \cup UNION {{g.edges[i].list[k].to : k \in DOMAIN g.edges[i].list} : i \in DOMAIN g.edges}

\* p is a simple path of the graph from `from` to `to` of at most maxDepth edges
IsSimplePath(g, p, from, to, maxDepth) ==
  /\ p # <<>>
  /\ p[1] = from /\ p[Len(p)] = to
  /\ \A i \in 1..(Len(p) - 1) : Edge(g, p[i], p[i + 1])
  /\ \A i, j \in DOMAIN p : i # j => p[i] # p[j]
  /\ Len(p) - 1 <= maxDepth

\* reference enumeration: every sequence of distinct names, filtered
SimplePaths(g, from, to, maxDepth) ==
  LET names == Mentioned(g) \cup {from, to}
  IN {p \in UNION {[1..n -> names] : n \in 1..Cardinality(names)} : IsSimplePath(g, p, from, to, maxDepth)}

\* C17: every path findPaths returns starts at from, ends at to, follows
\* edges of the graph, visits no node twice and has at most maxDepth edges.
C17_PathsAreSimplePaths ==
  query.asked =>
    \A k \in DOMAIN paths : IsSimplePath(graph, paths[k], query.from, query.to, query.maxDepth)

\* a query on a graph with a cycle through from has returned a path
C17_Witness ==
  /\ query.asked
  /\ paths # <<>>
  /\ \E n \in GraphNames : n # query.from /\ Edge(graph, query.from, n) /\ Edge(graph, n, query.from)

\* C18: the set of the paths findPaths returns is the set of all simple
\* paths from `from` to `to` of at most maxDepth edges.
C18_AllSimplePaths ==
  query.asked =>
    {paths[k] : k \in DOMAIN paths} = SimplePaths(graph, query.from, query.to, query.maxDepth)

\* a query answered with two different paths, one of them of exactly
\* maxDepth edges
C18_Witness ==
  /\ query.asked
  /\ \E i, j \in DOMAIN paths : /\ paths[i] # paths[j]
                                /\ Len(paths[i]) - 1 = query.maxDepth

\* C19: findPaths returns the empty sequence whenever there is no path from
\* `from` to `to`, and whenever from or to is not a node of the graph.
C19_EmptyWithoutPathOrNode ==
  query.asked =>
    ((\/ SimplePaths(graph, query.from, query.to, query.maxDepth) = {}
      \/ query.from \notin NodeNames(graph)
      \/ query.to \notin NodeNames(graph)) => paths = <<>>)

\* as coded: the result is empty exactly when the edges give no path within
\* maxDepth, whether or not the two names are nodes
C19_EmptyIffNoPath ==
  query.asked =>
    (paths = <<>> <=> SimplePaths(graph, query.from, query.to, query.maxDepth) = {})

\* ---- buildFromProject
\* the names a section of package.json declares
SectionNames(packageJson, f) ==
  IF Has(packageJson, f) THEN {packageJson[f][k].name : k \in DOMAIN packageJson[f]} ELSE {}

\* the names of the merged mapping: dependencies, devDependencies and
\* optionalDependencies
DeclaredNames(packageJson) ==
  SectionNames(packageJson, "dependencies") \cup SectionNames(packageJson, "devDependencies")
    \cup SectionNames(packageJson, "optionalDependencies")

\* the range the merged mapping gives a name: that of the last of the three
\* sections declaring it
RangeIn(packageJson, f, name) ==
  packageJson[f][CHOOSE k \in DOMAIN packageJson[f] : packageJson[f][k].name = name].range

DeclaredRange(packageJson, name) ==
  IF name \in SectionNames(packageJson, "optionalDependencies") THEN RangeIn(packageJson, "optionalDependencies", name)
  ELSE IF name \in SectionNames(packageJson, "devDependencies") THEN RangeIn(packageJson, "devDependencies", name)
  ELSE RangeIn(packageJson, "dependencies", name)

\* C20: in a graph built from a project, the root has exactly one outgoing
\* edge per entry of the merged mapping of dependencies, devDependencies
\* and optionalDependencies, with the entry's range, and none that stems
\* from peerDependencies; with nothing declared the root has no edge and
\* getStats().directDependencies is 0.
C20_RootEdges ==
  source.built =>
    LET rootEdges == getDependencies(graph, Root)
        declared == DeclaredNames(source.packageJson)
    IN /\ Len(rootEdges) = Cardinality(declared)
       /\ {rootEdges[k].to : k \in DOMAIN rootEdges} = declared
       /\ \A k \in DOMAIN rootEdges :
            rootEdges[k].versionRange = DeclaredRange(source.packageJson, rootEdges[k].to)
       /\ \A n \in SectionNames(source.packageJson, "peerDependencies") \ declared :
            \A k \in DOMAIN rootEdges : rootEdges[k].to # n
       /\ getStats(graph).directDependencies = Cardinality(declared)
       /\ declared = {} => (rootEdges = <<>> /\ getStats(graph).directDependencies = 0)

\* a graph built from a project that declares a package in two sections
C20_Witness ==
  /\ source.built
  /\ SectionNames(source.packageJson, "dependencies") \cap SectionNames(source.packageJson, "devDependencies") # {}
  /\ getDependencies(graph, Root) # <<>>

\* a graph built from a project that declares peer dependencies only:
\* no root edge
C20_WitnessNoneDeclared ==
  /\ source.built
  /\ SectionNames(source.packageJson, "peerDependencies") # {}
  /\ DeclaredNames(source.packageJson) = {}
  /\ getStats(graph).directDependencies = 0

\* ---- addEdge
\* the graph before its user's first addEdge or addNode call: empty, or as
\* built from the project
BaseGraph ==
  IF source.built THEN buildFromProject(parseProject(source.packageJson, source.packageLock))
  ELSE EmptyGraph

RECURSIVE EdgesFrom(_, _)
\* the edges of the calls with source s, in call order
EdgesFrom(calls, s) ==
  IF calls = <<>> THEN <<>>
  ELSE (IF Head(calls).from = s THEN <<[to |-> Head(calls).to, versionRange |-> Head(calls).versionRange]>>
        ELSE <<>>) \o EdgesFrom(Tail(calls), s)

\* C21: getDependencies(s) is the sequence of the edges added with source
\* s, in insertion order, repeated pairs and endpoints that are no nodes
\* included, and empty for a source without edge; a step that adds an edge
\* neither creates nor changes a node.
C21_EdgesAsAdded ==
  /\ [](\A s \in GraphNames \cup {Root} :
          getDependencies(graph, s) = getDependencies(BaseGraph, s) \o EdgesFrom(added, s))
  /\ [][added' # added => graph'.nodes = graph.nodes]_vars

\* the same pair added twice, between names that are no nodes
C21_Witness ==
  \E i, j \in DOMAIN added :
    /\ i < j /\ added[i] = added[j]
    /\ added[i].from \notin NodeNames(graph) /\ added[i].to \notin NodeNames(graph)
    /\ Len(getDependencies(graph, added[i].from)) >= 2

\* ---- getStats
\* the number of edges whose source is s
OutDegree(g, s) ==
  Cardinality({e \in UNION {{<<i, k>> : k \in DOMAIN g.edges[i].list} : i \in DOMAIN g.edges} :
                 g.edges[e[1]].from = s})

\* C22: getStats() gives totalPackages as the number of nodes other than
\* __root__, directDependencies as the number of outgoing edges of
\* __root__, and transitiveDependencies as their difference.
C22_Stats ==
  stats.asked =>
    /\ stats.value.totalPackages = Cardinality(NodeNames(graph) \ {Root})
    /\ stats.value.directDependencies = OutDegree(graph, Root)
    /\ stats.value.transitiveDependencies = stats.value.totalPackages - stats.value.directDependencies

\* the statistics of a graph with a root node, packages and root edges
C22_Witness ==
  /\ stats.asked
  /\ Root \in NodeNames(graph)
  /\ stats.value.totalPackages >= 2
  /\ stats.value.directDependencies >= 2
  /\ stats.value.transitiveDependencies = 0

\* C28: for a graph as buildFromProject produced it, getStats() gives
\* 0 <= directDependencies <= totalPackages, so that
\* transitiveDependencies is not negative.
C28_DirectWithinTotal ==
  (stats.asked /\ source.built /\ graph = BaseGraph) =>
    /\ 0 <= stats.value.directDependencies
    /\ stats.value.directDependencies <= stats.value.totalPackages
    /\ stats.value.transitiveDependencies >= 0

\* as coded: the bound holds when every declared dependency is installed
C28_WhenAllInstalled ==
  (stats.asked /\ source.built /\ graph = BaseGraph
     /\ DeclaredNames(source.packageJson) \subseteq NodeNames(graph)) =>
    /\ stats.value.directDependencies <= stats.value.totalPackages
    /\ stats.value.transitiveDependencies >= 0

\* the issue types that report on an installed package
InstalledPackageTypes ==
  {"missing-peer-dependency", "peer-dependency-mismatch",
   "version-incompatibility", "deprecated-package", "esm-commonjs-conflict"}

\* a call on a project that has no lockfile: nothing installed
NoLockfileRun(c) == Ran(c) /\ projects[arg[c]].installed = <<>>

\* C23: with an empty installed mapping buildFromProject gives a graph and
\* check() returns; the list it returns has no peer-dependency,
\* version-incompatibility, deprecation or ESM issue, although the root's
\* edges lead to packages that have no node.
C23_NoLockfile ==
  \A c \in Calls :
    NoLockfileRun(c) =>
      /\ pc[c] = "returned"
      /\ NodeNames(GraphOf(c)) = {Root}
      /\ \A k \in DOMAIN returned[c] : returned[c][k].type \notin InstalledPackageTypes

\* a run without lockfile under rules that name the declared package a in
\* a warning with a malformed condition, a deprecation and a counterpart;
\* the root has an edge to a, which has no node
C23_Witness ==
  \E c \in Calls :
    /\ NoLockfileRun(c)
    /\ RulesOf(c) = RulesAbort
    /\ \E k \in DOMAIN getDependencies(GraphOf(c), Root) :
         /\ getDependencies(GraphOf(c), Root)[k].to = "a"
         /\ "a" \notin NodeNames(GraphOf(c))

\* the warning conditions of the rules data
Conditions(R) ==
  IF ~Has(R, "rules") THEN {}
  ELSE {R.rules[r].warnings[w].condition :
          <<r, w>> \in {x \in (DOMAIN R.rules) \X (1..3) :
                          /\ Has(R.rules[x[1]], "warnings")
                          /\ x[2] \in DOMAIN R.rules[x[1]].warnings
                          /\ Has(R.rules[x[1]].warnings[x[2]], "condition")}}

\* a condition that is not of the form node<operator><version> with a
\* valid range
Malformed(condition) ==
  \/ condition.kind # "string"
  \/ OperatorLen(condition.text) = 0
  \/ LET n == OperatorLen(condition.text)
     IN ConditionRange(SubSeq(condition.text, 2, n + 1),
                       SubSeq(condition.text, n + 2, Len(condition.text))).op = "invalid"

\* C24: evaluating a warning condition never raises: whatever conditions
\* the rules data holds, malformed ones included, a check() run that has
\* gone through its passes has returned its list.
C24_ConditionNeverRaises ==
  \A c \in Calls : Ran(c) => pc[c] = "returned"

\* as coded: a malformed condition that is a string evaluates to false, so
\* the run returns when every condition of the rules is a string
C24_StringConditions ==
  \A c \in Calls :
    (Ran(c) /\ \A condition \in Conditions(RulesOf(c)) : condition.kind = "string") =>
      pc[c] = "returned"

\* a run under rules with a malformed string condition has returned
C24_MalformedStringRun ==
  \E c \in Calls :
    /\ pc[c] = "returned"
    /\ \E condition \in Conditions(RulesOf(c)) : condition.kind = "string" /\ Malformed(condition)
    /\ HasNode(GraphOf(c), "a")

\* C29: every issue of a list check() returned has its type, its severity
\* and the name of its package set.
C29_IssueFields ==
  \A c \in Calls :
    pc[c] = "returned" =>
      \A k \in DOMAIN returned[c] :
        /\ Has(returned[c][k], "type")
        /\ Has(returned[c][k], "severity")
        /\ Has(returned[c][k], "package")

\* as coded: type and severity are always set, and package is set on every
\* issue but the one about the running node version
C29_ButNodeVersion ==
  \A c \in Calls :
    pc[c] = "returned" =>
      \A k \in DOMAIN returned[c] :
        /\ Has(returned[c][k], "type")
        /\ Has(returned[c][k], "severity")
        /\ returned[c][k].type # "node-version-eol" => Has(returned[c][k], "package")

\* the CLI run failed: package.json unreadable, rules not loaded, or a pass raised
CliRunFailed == ~cli.readable \/ pc[1] \in {"loadFailed", "threw"}

\* the list of the run holds an issue of severity error
CliFoundError == \E k \in DOMAIN returned[1] : returned[1][k].severity = "error"

\* C25: a CLI run that has ended has exit code 1 exactly when the run
\* failed or its issues include one of severity error, and exit code 0
\* otherwise.
C25_ExitCode ==
  cli.exited =>
    /\ cli.code \in {0, 1}
    /\ cli.code = 1 <=> (CliRunFailed \/ CliFoundError)

\* a run that found issues, none of them an error, ended with exit code 0
C25_Witness ==
  /\ cli.exited /\ cli.code = 0
  /\ returned[1] # <<>>

\* a completed run with an error issue ended with exit code 1
C25_WitnessError ==
  /\ cli.exited /\ cli.code = 1 /\ ~CliRunFailed

\* the languages of the map, and the members of the set
MapLanguages(map) == {map[k].language : k \in DOMAIN map}
SetMembers(members) == {members[k] : k \in DOMAIN members}

\* the latest call of register was rejected
LastRejected(calls) == calls[Len(calls)].threw

\* C26: after any sequence of register() calls the map holds at most one
\* plugin per language, each under its own language, and its keys are the
\* members of registeredLanguages; a call is rejected exactly when the
\* plugin fails validate() or its language is registered already, a
\* rejected call leaves the map and the set as they were, and a plugin
\* once registered stays whatever is registered later.
C26_RegisterOnce ==
  /\ [](/\ \A j, k \in DOMAIN plugins : plugins[j].language = plugins[k].language => j = k
        /\ \A k \in DOMAIN plugins : plugins[k].plugin.language = plugins[k].language
        /\ MapLanguages(plugins) = SetMembers(registeredLanguages)
        /\ Len(registeredLanguages) = Len(plugins))
  /\ [][registerCalls' # registerCalls =>
          LET plugin == registerCalls'[Len(registerCalls')].plugin
          IN /\ LastRejected(registerCalls') <=>
                  (~validate(plugin) \/ plugin.language \in MapLanguages(plugins))
             /\ LastRejected(registerCalls') =>
                  plugins' = plugins /\ registeredLanguages' = registeredLanguages
             /\ \A k \in DOMAIN plugins : k \in DOMAIN plugins' /\ plugins'[k] = plugins[k]]_vars

\* a second plugin for a registered language was rejected, and so was an
\* invalid plugin; the first plugin is still the one registered
C26_Witness ==
  /\ Len(registerCalls) = 3
  /\ ~registerCalls[1].threw
  /\ registerCalls[2].threw /\ validate(registerCalls[2].plugin)
  /\ registerCalls[2].plugin # registerCalls[1].plugin
  /\ registerCalls[3].threw /\ ~validate(registerCalls[3].plugin)
  /\ Len(plugins) = 1 /\ plugins[1].plugin = registerCalls[1].plugin

\* the positions of the registered plugins whose detection succeeds
Detecting(map) == {k \in DOMAIN map : map[k].plugin.detects = "yes"}

\* the earliest registered among the detecting plugins of highest priority
Best(map) ==
  CHOOSE k \in Detecting(map) :
    \A j \in Detecting(map) :
      \/ map[j].plugin.priority < map[k].plugin.priority
      \/ map[j].plugin.priority = map[k].plugin.priority /\ k <= j

\* C27: without a preferred language getBestPlugin returns the plugin of
\* highest getPriority() among the registered plugins whose detectProject
\* succeeds, the earliest registered on a tie, a throwing detection being
\* skipped, and null when none detects; with a preferred language it
\* returns that language's plugin if it is registered and detects the
\* project, and raises otherwise, never falling back to another plugin.
C27_BestPlugin ==
  best.asked =>
    IF best.preferredLanguage = Undefined
    THEN IF Detecting(plugins) = {} THEN best.result = NoPlugin
         ELSE best.result = [kind |-> "plugin", plugin |-> plugins[Best(plugins)].plugin]
    ELSE IF \E k \in Detecting(plugins) : plugins[k].language = best.preferredLanguage
         THEN /\ best.result.kind = "plugin"
              /\ best.result.plugin.language = best.preferredLanguage
              /\ \E k \in DOMAIN plugins : plugins[k].plugin = best.result.plugin
         ELSE best.result.kind = "error"

\* three plugins registered: the first throws in detection, the second and
\* the third detect with the same priority; the second is returned
C27_Witness ==
  /\ best.asked /\ best.preferredLanguage = Undefined
  /\ Len(plugins) = 3
  /\ plugins[1].plugin.detects = "throw" /\ plugins[1].plugin.priority = NodePriority
  /\ plugins[2].plugin.detects = "yes" /\ plugins[3].plugin.detects = "yes"
  /\ plugins[2].plugin.priority = plugins[3].plugin.priority
  /\ best.result = [kind |-> "plugin", plugin |-> plugins[2].plugin]

\* the preferred language's plugin does not detect while another plugin
\* does: the call raises
C27_WitnessPreferred ==
  /\ best.asked /\ best.preferredLanguage = "python"
  /\ \E k \in DOMAIN plugins : plugins[k].language = "python" /\ plugins[k].plugin.detects = "no"
  /\ \E k \in Detecting(plugins) : plugins[k].language = "nodejs"
  /\ best.result.kind = "error"

\* the later registered plugin has the higher priority and is returned
C27_WitnessPriority ==
  /\ best.asked /\ best.preferredLanguage = Undefined
  /\ Len(plugins) = 2
  /\ plugins[1].plugin.detects = "yes" /\ plugins[2].plugin.detects = "yes"
  /\ plugins[1].plugin.priority < plugins[2].plugin.priority
  /\ best.result = [kind |-> "plugin", plugin |-> plugins[2].plugin]

\* the cached manifests of a package: the files fetchPackageManifest writes for it
ManifestsOf(packageName) == {getCachePath(packageName, v) : v \in CacheVersions}

\* C30: clearCache(name) removes every cached manifest of the package name
\* and leaves the manifests of other packages in place; clearCache()
\* removes every manifest and leaves an empty cache directory.
C30_ClearCache ==
  (cleared.called /\ useCache) =>
    IF cleared.packageName # <<>>
    THEN cacheFiles.files = cleared.before.files \ ManifestsOf(cleared.packageName)
    ELSE cacheFiles = [exists |-> TRUE, files |-> {}]

\* as coded: clearCache(name) removes the manifests of name and keeps every
\* file whose name does not start with the safe name; clearCache() empties
\* the directory
C30_ClearsByPrefix ==
  (cleared.called /\ useCache) =>
    IF cleared.packageName # <<>>
    THEN /\ cacheFiles.files \cap ManifestsOf(cleared.packageName) = {}
         /\ cacheFiles.files \subseteq cleared.before.files
         /\ \A f \in cleared.before.files \ cacheFiles.files : StartsWith(f, SafeName(cleared.packageName))
    ELSE cacheFiles = [exists |-> TRUE, files |-> {}]

====
